---- MODULE Spec2Model ----
(***************************************************************************)
(* Model of the homebox-analytics report engine                            *)
(* (src/src/analysis.py, src/src/utils.py).                                *)
(*                                                                         *)
(* Representation.                                                         *)
(*  - A text (HB.location, HB.labels) is the sequence of its characters'    *)
(*    code points, so that lower() and the substring test `x in s` are     *)
(*    computed and not assumed.                                            *)
(*  - A dictionary value is a record [t, v]: t = "missing" (key absent),   *)
(*    t = "none" (value None) or t = "str" (v is the text).                *)
(*  - A date string is the record [form, day]: form is "missing", "none",  *)
(*    "empty", "sentinel" (starts with 0001), "garbage" (not %Y-%m-%d),    *)
(*    "date" (YYYY-MM-DD of ordinal day `day`) or "timestamp" (the same    *)
(*    followed by T and a time of day).                                    *)
(*  - A price string is the record [form, num]: form is "missing",         *)
(*    "none", "empty", "garbage" (float() raises) or "number" (the decimal *)
(*    text of the finite number num).                                      *)
(*  - A datetime is [day, tod]: ordinal day and time of day.               *)
(*  - An optional value is a sequence of length 0 or 1.                    *)
(*  - A list of row objects is a sequence of indices into rows: the        *)
(*    engine's lists hold references to the caller's dictionaries.         *)
(*  - Money is exact (integers, ratios as reduced fractions [n, d]);       *)
(*    floating-point rounding is not modelled.                             *)
(***************************************************************************)
EXTENDS Integers, Sequences, FiniteSets, TLC

VARIABLES rows, start_date, end_date, now, report, locals, input, output,
          cache, CACHE_TTL, safe_rows, target_month, target_year, legacy_report,
          server, pc, page, item_ids, position, full_items, requests, fetched

\* the state of an analysis: the caller's rows, the range, the clock, the report
engine_vars == <<rows, start_date, end_date, now, report, locals>>

\* the argument and the result of a helper applied on its own
helper_vars == <<input, output>>

\* the cache of run_detailed_analysis, its lifetime, the rows of the served report
cache_vars == <<cache, CACHE_TTL, safe_rows>>

\* the arguments and the report of the month/year analyzer
legacy_vars == <<target_month, target_year, legacy_report>>

\* a call of fetch_api_data: the server, the place in the function, its locals,
\* the requests issued so far, the rows returned
fetch_vars == <<server, pc, page, item_ids, position, full_items, requests, fetched>>

vars == <<engine_vars, helper_vars, cache_vars, legacy_vars, fetch_vars>>

-----------------------------------------------------------------------------
(* Bounds *)

MaxRows == 3
MaxDay == 3

(* Program constants *)

STALE_DAYS == 90
JUNKAGIE_UNIT == 5
QUICK_FLIP_DAYS == 14

-----------------------------------------------------------------------------
(* Generic helpers *)

Idx(n) == [i \in 1..n |-> i]

RECURSIVE SumSeq(_)
SumSeq(s) == IF s = <<>> THEN 0 ELSE Head(s) + SumSeq(Tail(s))

Min(S) == CHOOSE x \in S : \A y \in S : x <= y
Max(S) == CHOOSE x \in S : \A y \in S : y <= x

Range(s) == {s[i] : i \in DOMAIN s}

Abs(x) == IF x < 0 THEN -x ELSE x

RECURSIVE Gcd(_, _)
Gcd(a, b) == IF b = 0 THEN a ELSE Gcd(b, a % b)

\* the fraction n/d (d > 0) in lowest terms
Frac(n, d) ==
  LET g == Gcd(Abs(n), d)
  IN  IF n = 0 THEN [n |-> 0, d |-> 1] ELSE [n |-> n \div g, d |-> d \div g]

FracAdd(x, y) == Frac(x.n * y.d + y.n * x.d, x.d * y.d)

RECURSIVE FracSum(_)
FracSum(s) == IF s = <<>> THEN Frac(0, 1) ELSE FracAdd(Head(s), FracSum(Tail(s)))

FracDivInt(x, k) == Frac(x.n, x.d * k)

\* x <= y for fractions
FracLeq(x, y) == x.n * y.d <= y.n * x.d

-----------------------------------------------------------------------------
(* Texts *)

\* the lower-case form of an ASCII character
lower_char(c) == IF c >= 65 /\ c <= 90 THEN c + 32 ELSE c

\* str.lower()
lower(s) == [i \in DOMAIN s |-> lower_char(s[i])]

\* needle in hay
contains(hay, needle) ==
  \E i \in 0..(Len(hay) - Len(needle)) :
    \A j \in 1..Len(needle) : hay[i + j] = needle[j]

KW_service == <<115, 101, 114, 118, 105, 99, 101>>  \* "service"
KW_labor == <<108, 97, 98, 111, 114>>  \* "labor"
KW_other_income == <<111, 116, 104, 101, 114, 32, 105, 110, 99, 111, 109, 101>>  \* "other income"
KW_loss == <<108, 111, 115, 115>>  \* "loss"
KW_nfs == <<110, 102, 115>>  \* "nfs"
KW_junkagie == <<106, 117, 110, 107, 97, 103, 105, 101>>  \* "junkagie"
KW_business_assets == <<98, 117, 115, 105, 110, 101, 115, 115, 32, 97, 115, 115, 101, 116, 115>>  \* "business assets"
TXT_Business_Assets == <<66, 117, 115, 105, 110, 101, 115, 115, 32, 65, 115, 115, 101, 116, 115>>  \* "Business Assets"
TXT_Loss == <<76, 111, 115, 115>>  \* "Loss"
TXT_Junkagie == <<74, 117, 110, 107, 97, 103, 105, 101>>  \* "Junkagie"
TXT_None == <<78, 111, 110, 101>>  \* "None"
TXT_Unknown == <<85, 110, 107, 110, 111, 119, 110>>  \* "Unknown"
TXT_empty == <<>>

Str(s) == [t |-> "str", v |-> s]
NoneVal == [t |-> "none", v |-> <<>>]
MissingVal == [t |-> "missing", v |-> <<>>]

\* dict.get(key, default) on a text field
get(val, default) == IF val.t = "missing" THEN default ELSE val

\* str(x) for a text, None included
str(val) == IF val.t = "none" THEN TXT_None ELSE val.v

-----------------------------------------------------------------------------
(* src/src/utils.py *)

\* parse_date: <<>> is None, otherwise midnight of the day
parse_date(date_str) ==
  IF date_str.form \in {"missing", "none", "empty", "sentinel"} THEN <<>>
  ELSE IF date_str.form \in {"date", "timestamp"}
       THEN <<[day |-> date_str.day, tod |-> 0]>>
       ELSE <<>>

\* parse_float
parse_float(value) ==
  IF value.form \in {"missing", "none", "empty"} THEN 0
  ELSE IF value.form = "number" THEN value.num
       ELSE 0

\* location_contains(location, text)
location_contains(location, text) == contains(lower(str(location)), lower(text))

-----------------------------------------------------------------------------
(* src/src/analysis.py: analyze_homebox_rows(rows, start_date, end_date) *)

\* datetime.date()
date(d) == d.day

\* is_in_range comparing the datetimes themselves, time of day included
is_in_range_datetime(d, sd, ed) ==
  IF d = <<>> THEN FALSE
  ELSE /\ (sd.day < d[1].day \/ (sd.day = d[1].day /\ sd.tod <= d[1].tod))
       /\ (d[1].day < ed.day \/ (d[1].day = ed.day /\ d[1].tod <= ed.tod))

\* with the upper bound only
is_in_range_upper(d, sd, ed) ==
  IF d = <<>> THEN FALSE
  ELSE date(d[1]) <= date(ed)

\* is_in_range(d), d an optional datetime
is_in_range(d, sd, ed) ==
  IF d = <<>> THEN FALSE
  ELSE date(sd) <= date(d[1]) /\ date(d[1]) <= date(ed)

\* line 27: sold_date and is_in_range(sold_date)
sold_in_range(r, sd, ed) ==
  LET sold_date == parse_date(r.sold_time)
  IN  sold_date # <<>> /\ is_in_range(sold_date, sd, ed)

\* lines 34-40
is_service(r) ==
  LET labels == lower(get(r.labels, Str(TXT_empty)).v)
      location == lower(get(r.location, Str(TXT_empty)).v)
  IN  \/ contains(labels, KW_service)
      \/ contains(labels, KW_labor)
      \/ contains(labels, KW_other_income)
      \/ contains(location, KW_service)
      \/ contains(location, KW_other_income)

\* lines 31-32: None.lower() raises AttributeError
raises(rs, sd, ed) ==
  \E i \in DOMAIN rs :
    /\ sold_in_range(rs[i], sd, ed)
    /\ (rs[i].labels.t = "none" \/ rs[i].location.t = "none")

\* without the exclusion of loss locations
not_loss_unchecked(r) == TRUE

\* line 47: 'loss' not in location
not_loss(r) == ~contains(lower(get(r.location, Str(TXT_empty)).v), KW_loss)

\* lines 22-48: the class of one row: "service", "product" or "none"
sale_class(r, sd, ed) ==
  IF sold_in_range(r, sd, ed)
  THEN IF is_service(r) THEN "service"
       ELSE IF not_loss(r) THEN "product" ELSE "none"
  ELSE "none"

\* lines 42-43
month_sales_services(rs, sd, ed) ==
  SelectSeq(Idx(Len(rs)), LAMBDA i : sale_class(rs[i], sd, ed) = "service")

\* with `if` in place of `else`: service sales are product sales too
month_sales_products_all(rs, sd, ed) ==
  SelectSeq(Idx(Len(rs)), LAMBDA i : sold_in_range(rs[i], sd, ed) /\ not_loss(rs[i]))

\* lines 44-48
month_sales_products(rs, sd, ed) ==
  SelectSeq(Idx(Len(rs)), LAMBDA i : sale_class(rs[i], sd, ed) = "product")

purchase_price(r) == parse_float(r.purchase_price)
sold_price(r) == parse_float(r.sold_price)

\* sum(parse_float(item.get(field)) for item in lst)
sum_purchase_price(rs, lst) == SumSeq([k \in DOMAIN lst |-> purchase_price(rs[lst[k]])])

\* with the cost subtracted from each price
sum_sold_price_net(rs, lst) ==
  SumSeq([k \in DOMAIN lst |-> sold_price(rs[lst[k]]) - purchase_price(rs[lst[k]])])

sum_sold_price(rs, lst) == SumSeq([k \in DOMAIN lst |-> sold_price(rs[lst[k]])])

\* with >= in place of >
items_with_cost_nonneg(rs, msp) == SelectSeq(msp, LAMBDA i : purchase_price(rs[i]) >= 0)

\* line 52
items_with_cost(rs, msp) == SelectSeq(msp, LAMBDA i : purchase_price(rs[i]) > 0)

\* line 53
free_items(rs, msp) == SelectSeq(msp, LAMBDA i : purchase_price(rs[i]) = 0)

\* line 63: ((s - p) / p) * 100
roi(r) == Frac((sold_price(r) - purchase_price(r)) * 100, purchase_price(r))

\* lines 58-63
roi_values(rs, iwc) ==
  LET withp == SelectSeq(iwc, LAMBDA i : purchase_price(rs[i]) > 0)
  IN  [k \in DOMAIN withp |-> roi(rs[withp[k]])]

\* line 64
avg_roi(rv) == IF rv # <<>> THEN FracDivInt(FracSum(rv), Len(rv)) ELSE Frac(0, 1)

\* lines 76-78 and 121-122: any(x in loc for x in [...])
loc_any(r, kws) ==
  LET loc == lower(str(get(r.location, Str(TXT_empty))))
  IN  \E x \in kws : contains(loc, x)

purchase_in_range(r, sd, ed) ==
  LET purchase_date == parse_date(r.purchase_time)
  IN  purchase_date # <<>> /\ is_in_range(purchase_date, sd, ed)

\* lines 85-89
period_expenses(rs, sd, ed) ==
  SelectSeq(Idx(Len(rs)), LAMBDA i : purchase_in_range(rs[i], sd, ed))

\* without the bucket exclusion
business_items_no_exclusion(rs, sd, ed) == period_expenses(rs, sd, ed)

\* lines 71-79: the same date filter, then the bucket exclusion
business_items(rs, sd, ed) ==
  SelectSeq(period_expenses(rs, sd, ed), LAMBDA i :
    ~loc_any(rs[i], {KW_nfs, KW_other_income, KW_junkagie}))

\* with the date filter of the expenses
business_assets_in_period(rs) ==
  SelectSeq(Idx(Len(rs)), LAMBDA i :
    /\ location_contains(get(rs[i].location, Str(TXT_empty)), TXT_Business_Assets)
    /\ purchase_in_range(rs[i], start_date, end_date))

\* line 93
business_assets(rs) ==
  SelectSeq(Idx(Len(rs)), LAMBDA i :
    location_contains(get(rs[i].location, Str(TXT_empty)), TXT_Business_Assets))

\* with the purchase date in place of the sold date
loss_items_by_purchase(rs, sd, ed) ==
  SelectSeq(Idx(Len(rs)), LAMBDA i :
    /\ location_contains(get(rs[i].location, Str(TXT_empty)), TXT_Loss)
    /\ purchase_in_range(rs[i], sd, ed))

\* lines 97-105
loss_items(rs, sd, ed) ==
  SelectSeq(Idx(Len(rs)), LAMBDA i :
    /\ location_contains(get(rs[i].location, Str(TXT_empty)), TXT_Loss)
    /\ sold_in_range(rs[i], sd, ed))

\* line 109
junkagie_items(rs) ==
  SelectSeq(Idx(Len(rs)), LAMBDA i :
    location_contains(get(rs[i].location, Str(TXT_empty)), TXT_Junkagie))

\* without the exclusion of the business assets
active_inventory_three_buckets(rs) ==
  SelectSeq(Idx(Len(rs)), LAMBDA i :
    /\ rs[i].archived # "true"
    /\ ~loc_any(rs[i], {KW_nfs, KW_other_income, KW_junkagie}))

\* lines 118-125
active_inventory(rs) ==
  SelectSeq(Idx(Len(rs)), LAMBDA i :
    /\ rs[i].archived # "true"
    /\ ~loc_any(rs[i], {KW_nfs, KW_other_income, KW_junkagie, KW_business_assets}))

\* line 130: (now - p_date).days
days_between(later, earlier) == later.day - earlier.day

\* lines 128-131
is_stale(r, nw) ==
  LET p_date == parse_date(r.purchase_time)
  IN  p_date # <<>> /\ days_between(nw, p_date[1]) > STALE_DAYS

\* with the days added to the days_held the row already has
annotate_accumulating(rs, act, nw) ==
  [i \in DOMAIN rs |->
     IF i \in Range(act) /\ is_stale(rs[i], nw)
     THEN [rs[i] EXCEPT !.days_held =
             <<(IF rs[i].days_held = <<>> THEN 0 ELSE rs[i].days_held[1])
                 + days_between(nw, parse_date(rs[i].purchase_time)[1])>>]
     ELSE rs[i]]

\* line 133: r['days_held'] = days_held, written into the caller's dictionary
annotate(rs, act, nw) ==
  [i \in DOMAIN rs |->
     IF i \in Range(act) /\ is_stale(rs[i], nw)
     THEN [rs[i] EXCEPT !.days_held =
             <<days_between(nw, parse_date(rs[i].purchase_time)[1])>>]
     ELSE rs[i]]

\* x.get('days_held', 0)
days_held_key(r) == IF r.days_held = <<>> THEN 0 ELSE r.days_held[1]

\* list.sort(key, reverse=True): stable, largest key first
RECURSIVE insert_desc(_, _, _)
insert_desc(sorted, i, rs) ==
  IF sorted = <<>> THEN <<i>>
  ELSE IF days_held_key(rs[Head(sorted)]) >= days_held_key(rs[i])
       THEN <<Head(sorted)>> \o insert_desc(Tail(sorted), i, rs)
       ELSE <<i>> \o sorted

RECURSIVE sort_desc(_, _)
sort_desc(lst, rs) ==
  IF lst = <<>> THEN <<>>
  ELSE insert_desc(sort_desc(SubSeq(lst, 1, Len(lst) - 1), rs), lst[Len(lst)], rs)

\* without the sort of line 137
stale_inventory_unsorted(rs, act, ann, nw) ==
  SelectSeq(act, LAMBDA i : is_stale(rs[i], nw))

\* lines 115-137; ann is the rows after the annotation
stale_inventory(rs, act, ann, nw) ==
  sort_desc(SelectSeq(act, LAMBDA i : is_stale(rs[i], nw)), ann)

\* line 140
marketplace_items(rs) ==
  SelectSeq(Idx(Len(rs)), LAMBDA i : rs[i].insured = "true" /\ rs[i].archived # "true")

\* lines 144-149
days_to_sell(rs, msp) ==
  LET both == SelectSeq(msp, LAMBDA i :
                parse_date(rs[i].purchase_time) # <<>> /\ parse_date(rs[i].sold_time) # <<>>)
  IN  [k \in DOMAIN both |->
         days_between(parse_date(rs[both[k]].sold_time)[1],
                      parse_date(rs[both[k]].purchase_time)[1])]

\* with < in place of <=
quick_flips_strict(dts) == Len(SelectSeq(dts, LAMBDA d : d < QUICK_FLIP_DAYS))

\* line 152
quick_flips(dts) == Len(SelectSeq(dts, LAMBDA d : d <= QUICK_FLIP_DAYS))

\* lines 155-160: the grouping key is the raw value, 'Unknown' when the key is absent
loc_key(r) == get(r.location, Str(TXT_Unknown))

inventory_by_location(rs) ==
  LET open == SelectSeq(Idx(Len(rs)), LAMBDA i : rs[i].archived # "true")
      keys == {loc_key(rs[i]) : i \in Range(open)}
  IN  [k \in keys |->
         LET grp == SelectSeq(open, LAMBDA i : loc_key(rs[i]) = k)
         IN  [count |-> Len(grp), value |-> sum_purchase_price(rs, grp)]]

\* line 55
net_profit(total_revenue, cogs) == total_revenue - cogs

\* line 167
total_revenue_field(total_revenue, service_revenue) == total_revenue + service_revenue

\* without the service revenue
total_profit_products_only(np, service_revenue) == np

\* line 171
total_profit(np, service_revenue) == np + service_revenue

\* the value of a division whose divisor is 0: ZeroDivisionError is raised
ZeroDivisionError == [n |-> 0, d |-> 0]

\* x / n for an integer x and a length n
divide(x, n) == IF n = 0 THEN ZeroDivisionError ELSE Frac(x, n)

\* without the guard `if lst else 0`
ratio_unguarded(x, n) == divide(x, n)

\* lines 176-177 and 151: x / len(lst) if lst else 0
ratio_or_zero(x, n) == IF n # 0 THEN divide(x, n) ELSE Frac(0, 1)

\* The whole call.  ret is the returned dictionary (lines 162-204; the later
\* 'items_with_cost' key, the list, replaces the earlier one, the count),
\* locals the function's local lists when it returns, and rows the caller's
\* rows after the call.
analyze_homebox_rows(rs, sd, ed, nw) ==
  LET msp == month_sales_products(rs, sd, ed)
      mss == month_sales_services(rs, sd, ed)
      total_revenue == sum_sold_price(rs, msp)
      iwc == items_with_cost(rs, msp)
      free == free_items(rs, msp)
      cogs == sum_purchase_price(rs, iwc)
      np == net_profit(total_revenue, cogs)
      rv == roi_values(rs, iwc)
      service_revenue == sum_sold_price(rs, mss)
      bi == business_items(rs, sd, ed)
      pe == period_expenses(rs, sd, ed)
      ba == business_assets(rs)
      li == loss_items(rs, sd, ed)
      ji == junkagie_items(rs)
      act == active_inventory(rs)
      ann == annotate(rs, act, nw)
      stale == stale_inventory(rs, act, ann, nw)
      mi == marketplace_items(rs)
      dts == days_to_sell(rs, msp)
  IN  [ ret |->
          [ status |-> "ok",
            start_date |-> sd,
            end_date |-> ed,
            product_revenue |-> total_revenue,
            service_revenue |-> service_revenue,
            total_revenue |-> total_revenue_field(total_revenue, service_revenue),
            cogs |-> cogs,
            net_profit |-> np,
            service_profit |-> service_revenue,
            total_profit |-> total_profit(np, service_revenue),
            avg_roi |-> avg_roi(rv),
            items_sold |-> Len(msp),
            free_items_count |-> Len(free),
            avg_sale_price |-> ratio_or_zero(total_revenue, Len(msp)),
            avg_profit_per_item |-> ratio_or_zero(np, Len(msp)),
            business_expenses |-> sum_purchase_price(rs, bi),
            total_expenses |-> sum_purchase_price(rs, pe),
            business_assets_value |-> sum_purchase_price(rs, ba),
            business_assets_count |-> Len(ba),
            business_assets |-> ba,
            loss_value |-> sum_purchase_price(rs, li),
            loss_count |-> Len(li),
            junkagie_count |-> Len(ji),
            junkagie_potential |-> Len(ji) * JUNKAGIE_UNIT,
            active_inventory_value |-> 0,
            active_inventory_count |-> 0,
            total_active_value |-> sum_purchase_price(rs, act),
            total_active_count |-> Len(act),
            stale_inventory |-> stale,
            stale_count |-> Len(stale),
            marketplace_value |-> sum_purchase_price(rs, mi),
            marketplace_count |-> Len(mi),
            avg_days_to_sell |-> ratio_or_zero(SumSeq(dts), Len(dts)),
            quick_flips |-> quick_flips(dts),
            fastest_sale |-> IF dts # <<>> THEN Min(Range(dts)) ELSE 0,
            slowest_sale |-> IF dts # <<>> THEN Max(Range(dts)) ELSE 0,
            month_sales |-> msp,
            items_with_cost |-> iwc,
            free_items |-> free,
            other_income_items |-> mss,
            inventory_by_location |-> inventory_by_location(rs) ],
        locals |->
          [ status |-> "ok",
            loss_items |-> li,
            active_inventory |-> act,
            business_items |-> bi,
            period_expenses |-> pe,
            junkagie_items |-> ji,
            marketplace_items |-> mi,
            roi_values |-> rv,
            days_to_sell |-> dts,
            now |-> nw ],
        rows |-> ann ]

NoReport == [status |-> "none"]
Raised == [status |-> "raised"]
RaisedZeroDivision == [status |-> "raised_zero_division"]

\* lines 151, 176 and 177: one of the divisions of the call raises
division_raises(ret) ==
  ZeroDivisionError \in {ret.avg_sale_price, ret.avg_profit_per_item, ret.avg_days_to_sell}
NoLocals == [status |-> "none"]

-----------------------------------------------------------------------------
(* Inputs *)

DateStr(d) == [form |-> "date", day |-> d]
Timestamp(d) == [form |-> "timestamp", day |-> d]
NoDate(f) == [form |-> f, day |-> 0]
Num(n) == [form |-> "number", num |-> n]
NoNum(f) == [form |-> f, num |-> 0]

Row(loc, lab, arch, ins, pp, pt, sp, st) ==
  [ location |-> loc, labels |-> lab, archived |-> arch, insured |-> ins,
    purchase_price |-> pp, purchase_time |-> pt,
    sold_price |-> sp, sold_time |-> st, days_held |-> <<>> ]

Days == 1..MaxDay
TimesOfDay == {0, 1}
DateTimes == [day : Days, tod : TimesOfDay]

TXT_Sold == <<83, 111, 108, 100>>  \* "Sold"
TXT_LOSS_bin == <<76, 79, 83, 83, 32, 98, 105, 110>>  \* "LOSS bin"
TXT_Labor == <<76, 97, 98, 111, 114>>  \* "Labor"
TXT_Other_Income == <<79, 116, 104, 101, 114, 32, 73, 110, 99, 111, 109, 101>>  \* "Other Income"
TXT_Service_Loss == <<83, 101, 114, 118, 105, 99, 101, 47, 76, 111, 115, 115>>  \* "Service/Loss"
TXT_NFS == <<78, 70, 83>>  \* "NFS"
TXT_Service_label == <<83, 101, 114, 118, 105, 99, 101>>  \* "Service"
TXT_labor_label == <<108, 97, 98, 111, 114>>  \* "labor"

\* the ranges run_detailed_analysis passes: midnight to the end of the day
DayStarts == {d \in DateTimes : d.tod = 0}
DayEnds == {d \in DateTimes : d.tod = 1}

\* the ranges over the first two days
NearStarts == {d \in DayStarts : d.day <= 2}
NearEnds == {d \in DayEnds : d.day <= 2}

\* classification inputs: every location, label, archived flag and sold_time
ClassRows ==
  { Row(Str(loc), lab, arch, "false", Num(100), NoDate("missing"), Num(150), st) :
      loc \in {TXT_Sold, TXT_LOSS_bin, TXT_Labor, TXT_Other_Income, TXT_Service_Loss},
      lab \in {Str(TXT_empty), Str(TXT_Service_label)},
      arch \in {"true", "false"},
      st \in {DateStr(d) : d \in Days} \cup {NoDate("sentinel"), NoDate("garbage")} }

ClassContext ==
  << Row(Str(TXT_LOSS_bin), MissingVal, "true", "true", Num(40), DateStr(1), Num(0), Timestamp(2)),
     Row(Str(TXT_NFS), Str(TXT_labor_label), "false", "true", Num(7), DateStr(2), Num(20), DateStr(2)),
     Row(Str(TXT_Sold), Str(TXT_empty), "true", "false", Num(10), DateStr(1), Num(15), DateStr(1)) >>

\* range inputs: every sold_time, for ranges with every time of day
RangeRows ==
  { Row(Str(TXT_Sold), Str(TXT_empty), "true", "false", Num(100), DateStr(1), Num(150), st) :
      st \in {DateStr(d) : d \in Days} \cup {Timestamp(d) : d \in Days} \cup {NoDate("none")} }

\* loss inputs: every purchase_time against every sold_time
LossRows ==
  { Row(loc, Str(TXT_labor_label), "true", "false", Num(100), pt, Num(0), st) :
      loc \in {Str(TXT_LOSS_bin), Str(TXT_NFS), MissingVal},
      pt \in {DateStr(d) : d \in Days} \cup {NoDate("missing")},
      st \in {DateStr(d) : d \in Days} \cup {NoDate("empty")} }

LossContext ==
  << Row(Str(TXT_LOSS_bin), Str(TXT_empty), "true", "false", Num(40), DateStr(1), Num(5), Timestamp(2)),
     Row(Str(TXT_Loss), Str(TXT_empty), "true", "false", Num(60), NoDate("missing"), Num(0), DateStr(2)),
     Row(Str(TXT_Sold), Str(TXT_empty), "true", "false", Num(10), DateStr(2), Num(15), DateStr(2)) >>

\* money inputs: product and service sales with every kind of price
MoneyRows ==
  { Row(Str(loc), Str(TXT_empty), "true", "false", pp, DateStr(1), sp, DateStr(2)) :
      loc \in {TXT_Sold, TXT_Other_Income},
      pp \in {Num(0), Num(50), Num(100), Num(-20), NoNum("garbage"), NoNum("missing")},
      sp \in {Num(30), Num(150), NoNum("empty")} }

MoneyContext ==
  << Row(Str(TXT_Sold), Str(TXT_empty), "true", "false", Num(100), DateStr(1), Num(150), DateStr(2)),
     Row(Str(TXT_Sold), Str(TXT_empty), "false", "false", Num(0), DateStr(1), Num(30), DateStr(2)),
     Row(MissingVal, Str(TXT_Service_label), "true", "false", Num(10), NoDate("empty"), Num(200), DateStr(2)) >>

\* expense inputs: every bucket location against every purchase_time
ExpenseRows ==
  { Row(loc, Str(TXT_empty), "false", "false", pp, pt, Num(0), NoDate("empty")) :
      loc \in {Str(TXT_Sold), Str(TXT_NFS), Str(TXT_Other_Income), Str(TXT_Junkagie),
               MissingVal, NoneVal},
      pt \in {DateStr(d) : d \in Days} \cup {NoDate("empty")},
      pp \in {Num(50), Num(-20)} }

ExpenseContext ==
  << Row(Str(TXT_Junkagie), Str(TXT_empty), "false", "false", Num(5), DateStr(1), Num(0), NoDate("empty")),
     Row(Str(TXT_Sold), Str(TXT_empty), "false", "true", Num(30), DateStr(2), Num(0), NoDate("empty")),
     Row(Str(TXT_Other_Income), Str(TXT_empty), "true", "false", Num(8), Timestamp(1), Num(0), NoDate("empty")) >>

TXT_Shop_business_assets == <<83, 104, 111, 112, 47, 98, 117, 115, 105, 110, 101, 115, 115, 32, 97, 115, 115, 101, 116, 115>>  \* "Shop/business assets"
TXT_JUNKAGIE_box == <<74, 85, 78, 75, 65, 71, 73, 69, 32, 98, 111, 120>>  \* "JUNKAGIE box"
TXT_Garage == <<71, 97, 114, 97, 103, 101>>  \* "Garage"

\* stock inputs: unsold rows of every location, archived flag and insured flag
StockRows ==
  { Row(loc, Str(TXT_empty), arch, ins, Num(50), DateStr(2), Num(0), NoDate("empty")) :
      loc \in {Str(TXT_Garage), Str(TXT_NFS), Str(TXT_Other_Income), Str(TXT_Junkagie),
               Str(TXT_Business_Assets), Str(TXT_empty), MissingVal, NoneVal},
      arch \in {"true", "false"},
      ins \in {"true", "false"} }

\* the key HB.archived is absent: r.get('HB.archived') is None
NoFlag == "missing"

StockContext ==
  << Row(Str(TXT_Garage), Str(TXT_empty), NoFlag, "true", Num(25), NoDate("empty"), Num(0), NoDate("empty")),
     Row(Str(TXT_JUNKAGIE_box), Str(TXT_empty), "false", "true", Num(3), DateStr(1), Num(0), NoDate("empty")),
     Row(Str(TXT_Shop_business_assets), Str(TXT_empty), "false", "false", Num(400), DateStr(1), Num(0), NoDate("empty")) >>

\* the day 334 days before the first reading of the clock
LongAgo == STALE_DAYS + 2 - 334

\* staleness inputs: every purchase_time around the threshold
StaleRows ==
  { Row(Str(loc), Str(TXT_empty), arch, "false", Num(50), pt, Num(0), NoDate("empty")) :
      loc \in {TXT_Garage, TXT_NFS},
      arch \in {"true", "false"},
      pt \in {DateStr(d) : d \in Days} \cup {NoDate("sentinel"), NoDate("garbage")} }

StaleContext ==
  << Row(Str(TXT_Garage), Str(TXT_empty), "false", "false", Num(20), DateStr(2), Num(0), NoDate("empty")),
     Row(Str(TXT_Garage), Str(TXT_empty), "false", "false", Num(30), DateStr(LongAgo), Num(0), NoDate("empty")),
     Row(Str(TXT_Garage), Str(TXT_empty), "false", "false", Num(40), Timestamp(1), Num(0), NoDate("empty")) >>

\* velocity inputs: sales of day 2 bought around QUICK_FLIP_DAYS days earlier
VelocityRows ==
  { Row(Str(loc), Str(TXT_empty), "true", "false", Num(50), pt, Num(80), st) :
      loc \in {TXT_Sold, TXT_Other_Income, TXT_LOSS_bin},
      pt \in {DateStr(2 - QUICK_FLIP_DAYS + k) : k \in {-1, 0, 1}}
             \cup {DateStr(2), DateStr(3), NoDate("garbage"), NoDate("missing")},
      st \in {DateStr(2), NoDate("sentinel")} }

VelocityContext ==
  << Row(Str(TXT_Sold), Str(TXT_empty), "true", "false", Num(10), DateStr(1), Num(15), DateStr(2)),
     Row(Str(TXT_Sold), Str(TXT_empty), "true", "false", Num(10), DateStr(2 - QUICK_FLIP_DAYS - 6), Num(15), Timestamp(2)),
     Row(Str(TXT_Sold), Str(TXT_empty), "true", "false", Num(10), NoDate("garbage"), Num(15), DateStr(2)) >>

\* text inputs: location and labels absent, None or empty, on sold and unsold rows
AbsentRows ==
  { Row(loc, lab, "false", "false", Num(50), DateStr(1), Num(80), st) :
      loc \in {MissingVal, NoneVal, Str(TXT_empty)},
      lab \in {MissingVal, NoneVal, Str(TXT_empty)},
      st \in {DateStr(d) : d \in Days} \cup {NoDate("empty")} }

AbsentContext ==
  << Row(Str(TXT_Sold), Str(TXT_empty), "true", "false", Num(10), DateStr(1), Num(15), DateStr(2)),
     Row(MissingVal, MissingVal, "false", "false", Num(20), DateStr(2), Num(0), NoDate("empty")),
     Row(Str(TXT_Garage), NoneVal, "false", "false", Num(30), DateStr(1), Num(0), NoDate("empty")) >>

\* the first rows of a context, at most n of them
Prefixes(Context, n) ==
  {SubSeq(Context, 1, k) : k \in {j \in 0..n : j <= Len(Context)}}

\* one row of Pool before or after the first rows, at most MaxRows - 1, of Context
Inputs(Pool, Context) ==
  LET ctx == Prefixes(Context, MaxRows - 1)
  IN  {<<x>> \o c : x \in Pool, c \in ctx} \cup {c \o <<x>> : x \in Pool, c \in ctx}

FirstNow == [day |-> STALE_DAYS + 2, tod |-> 1]
LastNowDay == STALE_DAYS + 3

-----------------------------------------------------------------------------
(* State machine *)

\* no helper is being applied
NoCall == [t |-> "none"]

\* fetch_api_data is not being called
NoFetch ==
  /\ server = [items |-> <<>>, per_page |-> 1, total |-> [t |-> "missing", v |-> 0],
               wraps |-> FALSE]
  /\ pc = "idle"
  /\ page = 1
  /\ item_ids = <<>>
  /\ position = 1
  /\ full_items = <<>>
  /\ requests = <<>>
  /\ fetched = <<>>

InitWith(inputs, starts, ends) ==
  /\ rows \in inputs
  /\ start_date \in starts
  /\ end_date \in ends
  /\ now = FirstNow
  /\ report = NoReport
  /\ locals = NoLocals
  /\ input = NoCall
  /\ output = NoCall
  /\ cache = {}
  /\ CACHE_TTL = <<>>
  /\ safe_rows = <<>>
  /\ target_month = 0
  /\ target_year = 0
  /\ legacy_report = NoReport
  /\ NoFetch

Init ==
  \/ InitWith({<<>>}, DateTimes, DateTimes)
  \/ InitWith(Inputs(ClassRows, ClassContext), DayStarts, DayEnds)
  \/ InitWith(Inputs(RangeRows, ClassContext), DateTimes, DateTimes)
  \/ InitWith(Inputs(LossRows, LossContext), DayStarts, DayEnds)
  \/ InitWith(Inputs(MoneyRows, MoneyContext), DayStarts, DayEnds)
  \/ InitWith(Inputs(ExpenseRows, ExpenseContext), NearStarts, NearEnds)
  \/ InitWith(Inputs(StockRows, StockContext), NearStarts, NearEnds)
  \/ InitWith(Inputs(StaleRows, StaleContext), NearStarts, NearEnds)
  \/ InitWith(Inputs(VelocityRows, VelocityContext), NearStarts, NearEnds)
  \/ InitWith(Inputs(AbsentRows, AbsentContext), NearStarts, NearEnds)

\* a call analyze_homebox_rows(rows, start_date, end_date) on the caller's rows
Analyze ==
  /\ IF raises(rows, start_date, end_date)
     THEN /\ report' = Raised
          /\ locals' = NoLocals
          /\ rows' = rows
     ELSE \E out \in {analyze_homebox_rows(rows, start_date, end_date, now)} :
              IF division_raises(out.ret)
              THEN /\ report' = RaisedZeroDivision
                   /\ locals' = NoLocals
                   /\ rows' = out.rows
              ELSE /\ report' = out.ret
                   /\ locals' = out.locals
                   /\ rows' = out.rows
  /\ UNCHANGED <<start_date, end_date, now>>
  /\ UNCHANGED <<helper_vars, cache_vars, legacy_vars, fetch_vars>>

\* the wall clock moves to the next day
Tick ==
  /\ now.day < LastNowDay
  /\ now' = [now EXCEPT !.day = now.day + 1]
  /\ UNCHANGED <<rows, start_date, end_date, report, locals>>
  /\ UNCHANGED <<helper_vars, cache_vars, legacy_vars, fetch_vars>>

Next ==
  \/ Analyze
  \/ Tick

Spec == Init /\ [][Next]_vars

-----------------------------------------------------------------------------
(* src/src/utils.py: parse_float on the values themselves *)

(***************************************************************************)
(* Here a price is the value found in the row: absent (the engine then     *)
(* passes the default 0), None, a text, or a float (a row read from a file  *)
(* by pandas holds floats, nan for an empty cell).  A float is             *)
(* [kind, n, d]: the finite number n/d, or nan.  Texts with an exponent,   *)
(* an underscore or a name of infinity are not among the inputs.           *)
(***************************************************************************)

MaxText == 3

Finite(n, d) == [kind |-> "finite", n |-> Frac(n, d).n, d |-> Frac(n, d).d]
NaN == [kind |-> "nan", n |-> 0, d |-> 1]
ValueError == [kind |-> "ValueError", n |-> 0, d |-> 1]

SPACE == 32
MINUS == 45
PLUS == 43
DOT == 46
IsDigit(c) == c >= 48 /\ c <= 57

\* str.strip()
RECURSIVE lstrip(_)
lstrip(s) == IF s # <<>> /\ Head(s) = SPACE THEN lstrip(Tail(s)) ELSE s

RECURSIVE rstrip(_)
rstrip(s) ==
  IF s # <<>> /\ s[Len(s)] = SPACE THEN rstrip(SubSeq(s, 1, Len(s) - 1)) ELSE s

strip(s) == rstrip(lstrip(s))

\* the number written by a sequence of digits
RECURSIVE digits_value(_)
digits_value(ds) ==
  IF ds = <<>> THEN 0
  ELSE digits_value(SubSeq(ds, 1, Len(ds) - 1)) * 10 + (ds[Len(ds)] - 48)

RECURSIVE pow10(_)
pow10(k) == IF k = 0 THEN 1 ELSE 10 * pow10(k - 1)

\* digits with at most one point and at least one digit
is_decimal(b) ==
  /\ \A i \in DOMAIN b : IsDigit(b[i]) \/ b[i] = DOT
  /\ Cardinality({i \in DOMAIN b : b[i] = DOT}) <= 1
  /\ \E i \in DOMAIN b : IsDigit(b[i])

decimal_value(b) ==
  LET whole == SelectSeq(b, IsDigit)
      dots == {i \in DOMAIN b : b[i] = DOT}
      places == IF dots = {} THEN 0 ELSE Len(b) - (CHOOSE i \in dots : TRUE)
  IN  [n |-> digits_value(whole), d |-> pow10(places)]

TXT_nan == <<110, 97, 110>>  \* "nan"

\* float(s) for a text s
float_of_text(s) ==
  LET b == strip(s)
      signed == b # <<>> /\ b[1] \in {PLUS, MINUS}
      body == IF signed THEN Tail(b) ELSE b
      sign == IF signed /\ b[1] = MINUS THEN -1 ELSE 1
  IN  IF lower(body) = TXT_nan THEN NaN
      ELSE IF is_decimal(body)
           THEN Finite(sign * decimal_value(body).n, decimal_value(body).d)
           ELSE ValueError

\* bool(value)
truthy(value) ==
  CASE value.t = "missing" -> FALSE
    [] value.t = "none" -> FALSE
    [] value.t = "str" -> value.s # <<>>
    [] value.t = "float" -> value.f.kind = "nan" \/ value.f.n # 0

\* parse_float(value): float(value) if value else 0.0, 0.0 when float() raises
parse_float_value(value) ==
  IF ~truthy(value) THEN Finite(0, 1)
  ELSE IF value.t = "float" THEN value.f
       ELSE IF float_of_text(value.s) = ValueError
            THEN Finite(0, 1)
            ELSE float_of_text(value.s)

\* the characters of the price texts: 0 5 . - n a x and the space
PriceChars == {48, 53, DOT, MINUS, 110, 97, 120, SPACE}

RECURSIVE TextsUpTo(_, _)
TextsUpTo(chars, n) ==
  IF n = 0 THEN {<<>>}
  ELSE LET shorter == TextsUpTo(chars, n - 1)
       IN  shorter \cup {Append(t, c) : t \in shorter, c \in chars}

PriceValue(t, s, f) == [t |-> t, s |-> s, f |-> f]

PriceValues ==
  {PriceValue("missing", <<>>, NaN), PriceValue("none", <<>>, NaN)}
    \cup {PriceValue("str", s, NaN) : s \in TextsUpTo(PriceChars, MaxText)}
    \cup {PriceValue("float", <<>>, f) : f \in {Finite(0, 1), Finite(50, 1), Finite(-1, 2), NaN}}

InitParse ==
  /\ rows = <<>>
  /\ start_date = [day |-> 1, tod |-> 0]
  /\ end_date = [day |-> 1, tod |-> 1]
  /\ now = FirstNow
  /\ report = NoReport
  /\ locals = NoLocals
  /\ input \in PriceValues
  /\ output = NoCall
  /\ cache = {}
  /\ CACHE_TTL = <<>>
  /\ safe_rows = <<>>
  /\ target_month = 0
  /\ target_year = 0
  /\ legacy_report = NoReport
  /\ NoFetch

\* a call parse_float(input)
ParseFloat ==
  /\ output = NoCall
  /\ output' = [t |-> "float", f |-> parse_float_value(input)]
  /\ UNCHANGED input
  /\ UNCHANGED <<engine_vars, cache_vars, legacy_vars, fetch_vars>>

NextParse == ParseFloat

SpecParse == InitParse /\ [][NextParse]_vars

-----------------------------------------------------------------------------
(* src/app.py: run_detailed_analysis under st.cache_data *)

(***************************************************************************)
(* The cache is a set of entries [key, value, stored]: the arguments of    *)
(* the call, the report returned with the rows it refers to, and the clock  *)
(* at which it was stored.  CACHE_TTL is <<>> (None: entries never expire)  *)
(* or <<seconds>>.  A date value may here be a datetime object (form        *)
(* "datetime"), which sanitize_rows writes as YYYY-MM-DD.                   *)
(***************************************************************************)

DateTimeValue(d) == [form |-> "datetime", day |-> d]

SECONDS_PER_DAY == 86400

\* value.strftime('%Y-%m-%d') for a datetime, the value itself otherwise
sanitize_value(value) ==
  IF value.form = "datetime" THEN [form |-> "date", day |-> value.day] ELSE value

\* sanitize_rows(rows): new dictionaries
sanitize_rows(rs) ==
  [i \in DOMAIN rs |->
     [rs[i] EXCEPT !.purchase_time = sanitize_value(@),
                   !.sold_time = sanitize_value(@)]]

\* datetime.combine(d, datetime.min.time()), datetime.combine(d, datetime.max.time())
combine_min(d) == [d EXCEPT !.tod = 0]
combine_max(d) == [d EXCEPT !.tod = 1]

\* the body of run_detailed_analysis, lines 52-59
detailed_analysis(raw_rows, sd, ed, nw) ==
  analyze_homebox_rows(sanitize_rows(raw_rows), combine_min(sd), combine_max(ed), nw)

\* an entry of the cache can still be served
alive(entry, nw) ==
  \/ CACHE_TTL = <<>>
  \/ (nw.day - entry.stored.day) * SECONDS_PER_DAY < CACHE_TTL[1]

\* the values of the environment variable CACHE_TTL: unset, an hour, two days
Lifetimes == {<<>>, <<3600>>, <<2 * SECONDS_PER_DAY>>}

\* cache inputs: unsold rows bought around the staleness threshold
CacheRows ==
  { Row(Str(TXT_Garage), Str(TXT_empty), arch, "false", Num(50), pt, Num(0), NoDate("empty")) :
      arch \in {"true", "false"},
      pt \in {DateStr(d) : d \in Days} \cup {DateTimeValue(d) : d \in Days} }

InitCache ==
  /\ rows \in Inputs(CacheRows, StaleContext)
  /\ start_date \in NearStarts
  /\ end_date \in NearEnds
  /\ now = FirstNow
  /\ report = NoReport
  /\ locals = NoLocals
  /\ input = NoCall
  /\ output = NoCall
  /\ cache = {}
  /\ CACHE_TTL \in Lifetimes
  /\ safe_rows = <<>>
  /\ target_month = 0
  /\ target_year = 0
  /\ legacy_report = NoReport
  /\ NoFetch

\* a call run_detailed_analysis(rows, start_date, end_date)
RunDetailedAnalysis ==
  LET key == <<rows, start_date, end_date>>
      hits == {e \in cache : e.key = key /\ alive(e, now)}
  IN  /\ IF hits # {}
         THEN \E e \in hits :
                /\ report' = e.value.ret
                /\ safe_rows' = e.value.rows
                /\ cache' = cache
         ELSE IF raises(sanitize_rows(rows), combine_min(start_date), combine_max(end_date))
              THEN /\ report' = Raised
                   /\ safe_rows' = sanitize_rows(rows)
                   /\ cache' = cache
              ELSE \E out \in {detailed_analysis(rows, start_date, end_date, now)} :
                     /\ report' = out.ret
                     /\ safe_rows' = out.rows
                     /\ cache' = {e \in cache : e.key # key}
                                   \cup {[key |-> key,
                                          value |-> [ret |-> out.ret, rows |-> out.rows],
                                          stored |-> now]}
      /\ UNCHANGED <<rows, start_date, end_date, now, locals, CACHE_TTL>>
      /\ UNCHANGED <<helper_vars, legacy_vars, fetch_vars>>

\* the user picks another end of the range
SelectRange ==
  /\ \E ed \in NearEnds : ed # end_date /\ end_date' = ed
  /\ UNCHANGED <<rows, start_date, now, report, locals>>
  /\ UNCHANGED <<helper_vars, cache_vars, legacy_vars, fetch_vars>>

NextCache ==
  \/ RunDetailedAnalysis
  \/ SelectRange
  \/ Tick

SpecCache == InitCache /\ [][NextCache]_vars

-----------------------------------------------------------------------------
(* src/detailedanalysis/analyze_homebox_v3.py:                             *)
(* analyze_homebox_rows(rows, target_month, target_year)                   *)

(***************************************************************************)
(* The calendar.  Day 1 is 2025-01-01; the years are 2024 to 2026.         *)
(***************************************************************************)

Years == 2024..2026

is_leap(y) == (y % 4 = 0 /\ y % 100 # 0) \/ y % 400 = 0

\* calendar.monthrange(y, m)[1]
monthrange(y, m) ==
  IF m = 2 THEN (IF is_leap(y) THEN 29 ELSE 28)
  ELSE IF m \in {4, 6, 9, 11} THEN 30 ELSE 31

days_in_year(y) == IF is_leap(y) THEN 366 ELSE 365

RECURSIVE days_before_year(_)
days_before_year(y) ==
  IF y = 2025 THEN 0
  ELSE IF y > 2025 THEN days_before_year(y - 1) + days_in_year(y - 1)
       ELSE days_before_year(y + 1) - days_in_year(y)

RECURSIVE days_before_month(_, _)
days_before_month(y, m) ==
  IF m = 1 THEN 0 ELSE days_before_month(y, m - 1) + monthrange(y, m - 1)

\* the ordinal of date(y, m, d)
ordinal(y, m, d) == days_before_year(y) + days_before_month(y, m) + d

\* datetime.year and datetime.month of the day of ordinal n
year_month(n) ==
  CHOOSE ym \in Years \X (1..12) :
    /\ ordinal(ym[1], ym[2], 1) <= n
    /\ n <= ordinal(ym[1], ym[2], monthrange(ym[1], ym[2]))

year(d) == year_month(d.day)[1]
month(d) == year_month(d.day)[2]

(***************************************************************************)
(* infer_month_year_from_location.  The result is <<month, year>>, each an *)
(* optional value.                                                         *)
(***************************************************************************)

\* MONTH_LOOKUP in the order of its keys
MONTH_LOOKUP ==
  << [key |-> <<106, 97, 110, 117, 97, 114, 121>>, month |-> 1],
     [key |-> <<102, 101, 98, 114, 117, 97, 114, 121>>, month |-> 2],
     [key |-> <<109, 97, 114, 99, 104>>, month |-> 3],
     [key |-> <<97, 112, 114, 105, 108>>, month |-> 4],
     [key |-> <<109, 97, 121>>, month |-> 5],
     [key |-> <<106, 117, 110, 101>>, month |-> 6],
     [key |-> <<106, 117, 108, 121>>, month |-> 7],
     [key |-> <<97, 117, 103, 117, 115, 116>>, month |-> 8],
     [key |-> <<115, 101, 112, 116, 101, 109, 98, 101, 114>>, month |-> 9],
     [key |-> <<111, 99, 116, 111, 98, 101, 114>>, month |-> 10],
     [key |-> <<110, 111, 118, 101, 109, 98, 101, 114>>, month |-> 11],
     [key |-> <<100, 101, 99, 101, 109, 98, 101, 114>>, month |-> 12],
     [key |-> <<106, 97, 110>>, month |-> 1],
     [key |-> <<102, 101, 98>>, month |-> 2],
     [key |-> <<109, 97, 114>>, month |-> 3],
     [key |-> <<97, 112, 114>>, month |-> 4],
     [key |-> <<106, 117, 110>>, month |-> 6],
     [key |-> <<106, 117, 108>>, month |-> 7],
     [key |-> <<97, 117, 103>>, month |-> 8],
     [key |-> <<115, 101, 112>>, month |-> 9],
     [key |-> <<111, 99, 116>>, month |-> 10],
     [key |-> <<110, 111, 118>>, month |-> 11],
     [key |-> <<100, 101, 99>>, month |-> 12] >>

starts_at(hay, needle, i) ==
  /\ i + Len(needle) - 1 <= Len(hay)
  /\ SubSeq(hay, i, i + Len(needle) - 1) = needle

\* 20\d{2} at position i
year_at(loc, i) ==
  /\ i + 3 <= Len(loc)
  /\ loc[i] = 50 /\ loc[i + 1] = 48
  /\ IsDigit(loc[i + 2]) /\ IsDigit(loc[i + 3])

\* re.search(r"(20\d{2})[\-/](\d{1,2})", loc): <<>> or <<[year, month]>>
search_year_month(loc) ==
  LET at == {i \in DOMAIN loc :
               /\ year_at(loc, i)
               /\ i + 5 <= Len(loc)
               /\ loc[i + 4] \in {45, 47}
               /\ IsDigit(loc[i + 5])}
  IN  IF at = {} THEN <<>>
      ELSE LET i == CHOOSE j \in at : \A k \in at : j <= k
               two == i + 6 <= Len(loc) /\ IsDigit(loc[i + 6])
           IN  <<[year |-> digits_value(SubSeq(loc, i, i + 3)),
                  month |-> digits_value(SubSeq(loc, i + 5, IF two THEN i + 6 ELSE i + 5))]>>

\* \s
IsSpace(c) == c = 32 \/ (c >= 9 /\ c <= 13)

\* the position after the white space that starts at i
RECURSIVE skip_space(_, _)
skip_space(loc, i) ==
  IF i <= Len(loc) /\ IsSpace(loc[i]) THEN skip_space(loc, i + 1) ELSE i

\* re.search(rf"{key}\s*(20\d{{2}})", loc): <<>> or <<year>>
search_key_year(key, loc) ==
  LET at == {i \in DOMAIN loc :
               starts_at(loc, key, i) /\ year_at(loc, skip_space(loc, i + Len(key)))}
  IN  IF at = {} THEN <<>>
      ELSE LET i == CHOOSE j \in at : \A k \in at : j <= k
               y == skip_space(loc, i + Len(key))
           IN  <<digits_value(SubSeq(loc, y, y + 3))>>

infer_month_year_from_location(location) ==
  IF location.t = "none" \/ location.v = <<>> THEN <<<<>>, <<>>>>
  ELSE LET loc == lower(location.v)
           ym == search_year_month(loc)
           found == {k \in DOMAIN MONTH_LOOKUP : contains(loc, MONTH_LOOKUP[k].key)}
       IN  IF ym # <<>> /\ 1 <= ym[1].month /\ ym[1].month <= 12
           THEN <<<<ym[1].month>>, <<ym[1].year>>>>
           ELSE IF found = {} THEN <<<<>>, <<>>>>
                ELSE LET k == CHOOSE j \in found : \A h \in found : j <= h
                     IN  <<<<MONTH_LOOKUP[k].month>>,
                           search_key_year(MONTH_LOOKUP[k].key, loc)>>

(***************************************************************************)
(* The analyzer, lines 103-166 and the keys of the report they decide.     *)
(***************************************************************************)

\* line 111
has_sold_time(r) == r.sold_time.form \in {"garbage", "date", "timestamp"}

\* line 112
is_archived(r) == r.archived = "true"

\* line 115: 'Sold' in location, for a location that is None, raises TypeError
legacy_raises(rs) ==
  \E i \in DOMAIN rs : is_archived(rs[i]) /\ rs[i].location.t = "none"

\* lines 108-118
sold_items(rs) ==
  SelectSeq(Idx(Len(rs)), LAMBDA i :
    LET location == get(rs[i].location, Str(TXT_empty))
    IN  /\ is_archived(rs[i])
        /\ (contains(location.v, TXT_Sold) \/ has_sold_time(rs[i]))
        /\ ~location_contains(location, TXT_Other_Income)
        /\ ~location_contains(location, TXT_Loss))

\* lines 124 and 157
in_target_month(r, tm, ty) ==
  LET sold_date == parse_date(r.sold_time)
  IN  sold_date # <<>> /\ month(sold_date[1]) = tm /\ year(sold_date[1]) = ty

\* lines 121-125
legacy_month_sales(rs, tm, ty) ==
  SelectSeq(sold_items(rs), LAMBDA i : in_target_month(rs[i], tm, ty))

\* lines 160-162
inferred_in_target_month(r, tm, ty) ==
  LET loc == infer_month_year_from_location(get(r.location, Str(TXT_empty)))
  IN  loc[1] = <<tm>> /\ (loc[2] = <<>> \/ loc[2] = <<ty>>)

\* lines 152-164
other_income_november(rs, tm, ty) ==
  SelectSeq(Idx(Len(rs)), LAMBDA i :
    /\ location_contains(get(rs[i].location, Str(TXT_empty)), TXT_Other_Income)
    /\ (in_target_month(rs[i], tm, ty) \/ inferred_in_target_month(rs[i], tm, ty)))

legacy_analyze_homebox_rows(rs, tm, ty) ==
  LET month_sales == legacy_month_sales(rs, tm, ty)
      total_revenue == sum_sold_price(rs, month_sales)
      with_cost == items_with_cost(rs, month_sales)
      income == other_income_november(rs, tm, ty)
  IN  [ status |-> "ok",
        target_month |-> tm,
        target_year |-> ty,
        product_revenue |-> total_revenue,
        service_revenue |-> sum_sold_price(rs, income),
        cogs |-> sum_purchase_price(rs, with_cost),
        month_sales |-> month_sales,
        other_income_items |-> income ]

TXT_Other_Income_Feb_2025 == <<79, 116, 104, 101, 114, 32, 73, 110, 99, 111, 109, 101, 32, 47, 32, 70, 101, 98, 32, 50, 48, 50, 53>>  \* "Other Income / Feb 2025"
TXT_Other_Income_2025_01 == <<79, 116, 104, 101, 114, 32, 73, 110, 99, 111, 109, 101, 32, 50, 48, 50, 53, 45, 48, 49>>  \* "Other Income 2025-01"
TXT_Income_January == <<73, 110, 99, 111, 109, 101, 32, 74, 97, 110, 117, 97, 114, 121>>  \* "Income January"

\* the months the reports are asked for
Targets == {<<2024, 12>>, <<2025, 1>>, <<2025, 2>>}

\* the days around the ends of those months
MonthEnds == {ordinal(2024, 12, 31), ordinal(2025, 1, 1), ordinal(2025, 1, 31), ordinal(2025, 2, 1)}

\* month inputs: sales around the ends of the target months
LegacyRows ==
  { Row(Str(loc), Str(lab), arch, "false", Num(100), NoDate("missing"), Num(150), st) :
      loc \in {TXT_Sold, TXT_Other_Income, TXT_Other_Income_Feb_2025,
               TXT_Other_Income_2025_01, TXT_Income_January, TXT_LOSS_bin},
      lab \in {TXT_empty, TXT_Service_label},
      arch \in {"true", "false"},
      st \in {DateStr(d) : d \in MonthEnds} \cup {NoDate("sentinel")} }

LegacyContext ==
  << Row(Str(TXT_Sold), Str(TXT_empty), "true", "false", Num(10), DateStr(1), Num(15), Timestamp(ordinal(2025, 1, 31))),
     Row(Str(TXT_Other_Income), Str(TXT_empty), "true", "false", Num(0), NoDate("empty"), Num(40), DateStr(ordinal(2025, 2, 1))),
     Row(NoneVal, Str(TXT_empty), "false", "false", Num(20), DateStr(1), Num(0), NoDate("empty")) >>

\* the range of app.py lines 393-397 for the month
InitLegacy ==
  /\ rows \in Inputs(LegacyRows, LegacyContext)
  /\ \E t \in Targets :
       /\ target_year = t[1]
       /\ target_month = t[2]
       /\ start_date = [day |-> ordinal(t[1], t[2], 1), tod |-> 0]
       /\ end_date = [day |-> ordinal(t[1], t[2], monthrange(t[1], t[2])), tod |-> 1]
  /\ now = FirstNow
  /\ report = NoReport
  /\ locals = NoLocals
  /\ input = NoCall
  /\ output = NoCall
  /\ cache = {}
  /\ CACHE_TTL = <<>>
  /\ safe_rows = <<>>
  /\ legacy_report = NoReport
  /\ NoFetch

\* a call of the month/year analyzer on the caller's rows
AnalyzeLegacy ==
  /\ legacy_report' = IF legacy_raises(rows) THEN Raised
                      ELSE legacy_analyze_homebox_rows(rows, target_month, target_year)
  /\ UNCHANGED <<target_month, target_year>>
  /\ UNCHANGED <<engine_vars, helper_vars, cache_vars, fetch_vars>>

NextLegacy ==
  \/ Analyze
  \/ AnalyzeLegacy

SpecLegacy == InitLegacy /\ [][NextLegacy]_vars

-----------------------------------------------------------------------------
(* src/src/api.py: map_api_items_to_rows(items, base_url) *)

(***************************************************************************)
(* A JSON value is [t, v]: t = "missing" (key absent), "none" (null),      *)
(* "bool" (v = <<b>>), "int" (v = <<n>>), "str" (v the text), "dict" (a    *)
(* location or a label: v = <<name>>, name a JSON value) or "list"         *)
(* (v the labels).  An item is the record of the values of its keys.  A    *)
(* mapped row holds texts; of its keys, those the engine reads are kept.   *)
(***************************************************************************)

ApiMissing == [t |-> "missing", v |-> <<>>]
ApiNone == [t |-> "none", v |-> <<>>]
ApiBool(b) == [t |-> "bool", v |-> <<b>>]
ApiInt(n) == [t |-> "int", v |-> <<n>>]
ApiStr(s) == [t |-> "str", v |-> s]
ApiDict(name) == [t |-> "dict", v |-> <<name>>]
ApiList(l) == [t |-> "list", v |-> l]

\* bool(value) of a JSON value
api_truthy(value) ==
  CASE value.t \in {"missing", "none"} -> FALSE
    [] value.t = "bool" -> value.v[1]
    [] value.t = "int" -> value.v[1] # 0
    [] value.t \in {"str", "list"} -> value.v # <<>>
    [] value.t = "dict" -> value.v[1].t # "missing"

\* d.get('name', '') of a location or a label
get_name(d) == IF d.v[1].t = "missing" THEN TXT_empty ELSE d.v[1].v

\* str(n) for an integer
RECURSIVE str_nat(_)
str_nat(n) == IF n < 10 THEN <<48 + n>> ELSE Append(str_nat(n \div 10), 48 + (n % 10))

str_int(n) == IF n < 0 THEN <<MINUS>> \o str_nat(-n) ELSE str_nat(n)

TXT_True == <<84, 114, 117, 101>>  \* "True"
TXT_False == <<70, 97, 108, 115, 101>>  \* "False"

\* str(value) of a value that is not a dict or a list
api_str(value) ==
  CASE value.t = "none" -> TXT_None
    [] value.t = "bool" -> (IF value.v[1] THEN TXT_True ELSE TXT_False)
    [] value.t = "int" -> str_int(value.v[1])
    [] value.t = "str" -> value.v

\* lines 8-9
location_name(item) ==
  LET location == IF item.location.t = "missing" THEN ApiDict(ApiMissing) ELSE item.location
  IN  IF location.t = "dict" THEN get_name(location) ELSE api_str(location)

COMMA == 44

\* ','.join(names)
RECURSIVE join(_)
join(names) ==
  IF names = <<>> THEN <<>>
  ELSE IF Len(names) = 1 THEN names[1]
       ELSE names[1] \o <<COMMA>> \o join(Tail(names))

\* lines 11-12
label_names(item) ==
  LET labels == IF item.labels.t = "missing" THEN ApiList(<<>>) ELSE item.labels
  IN  IF labels.t = "list"
      THEN join([k \in DOMAIN labels.v |-> get_name(labels.v[k])])
      ELSE TXT_empty

LETTER_T == 84
TXT_0001 == <<48, 48, 48, 49>>  \* "0001"

\* iso_str.split('T')[0]
RECURSIVE before_T(_)
before_T(s) ==
  IF s = <<>> \/ Head(s) = LETTER_T THEN <<>> ELSE <<Head(s)>> \o before_T(Tail(s))

\* without the truncation at the letter T
extract_date_whole(iso_str) ==
  IF ~api_truthy(iso_str) \/ starts_at(iso_str.v, TXT_0001, 1) THEN TXT_empty
  ELSE iso_str.v

\* lines 14-17
extract_date(iso_str) ==
  IF ~api_truthy(iso_str) \/ starts_at(iso_str.v, TXT_0001, 1) THEN TXT_empty
  ELSE IF LETTER_T \in Range(iso_str.v) THEN before_T(iso_str.v) ELSE iso_str.v

\* 'true' if value else 'false'
flag(value) == IF api_truthy(value) THEN "true" ELSE "false"

\* item.get(key, default)
api_get(value, default) == IF value.t = "missing" THEN default ELSE value

\* lines 19-44, the keys the engine reads
map_api_item(item) ==
  [ location |-> location_name(item),
    labels |-> label_names(item),
    archived |-> flag(item.archived),
    insured |-> flag(item.insured),
    purchase_price |-> api_str(api_get(item.purchasePrice, ApiInt(0))),
    purchase_time |-> extract_date(api_get(item.purchaseTime, ApiStr(TXT_empty))),
    sold_price |-> api_str(api_get(item.soldPrice, ApiInt(0))),
    sold_time |-> extract_date(api_get(item.soldTime, ApiStr(TXT_empty))) ]

map_api_items_to_rows(items) == [i \in DOMAIN items |-> map_api_item(items[i])]

Item(loc, labs, arch, ins, pp, pt, sp, st) ==
  [ location |-> loc, labels |-> labs, archived |-> arch, insured |-> ins,
    purchasePrice |-> pp, purchaseTime |-> pt, soldPrice |-> sp, soldTime |-> st ]

TXT_sentinel_time == <<48, 48, 48, 49, 45, 48, 49, 45, 48, 49, 84, 48, 48, 58, 48, 48, 58, 48, 48, 90>>  \* "0001-01-01T00:00:00Z"
TXT_sold_instant == <<50, 48, 50, 53, 45, 48, 49, 45, 51, 49, 84, 49, 48, 58, 51, 48, 58, 48, 48, 90>>  \* "2025-01-31T10:30:00Z"
TXT_sold_day == <<50, 48, 50, 53, 45, 48, 49, 45, 51, 49>>  \* "2025-01-31"
TXT_false == <<102, 97, 108, 115, 101>>  \* "false"

\* the characters of the short date texts: 0 1 T -
DateChars == {48, 49, LETTER_T, 45}

ApiDates ==
  {ApiMissing, ApiNone}
    \cup {ApiStr(s) : s \in TextsUpTo(DateChars, MaxText)}
    \cup {ApiStr(s) : s \in {TXT_0001, TXT_sentinel_time, TXT_sold_instant, TXT_sold_day}}

ApiLocations ==
  {ApiMissing, ApiNone, ApiStr(TXT_Garage), ApiDict(ApiMissing),
   ApiDict(ApiStr(TXT_Sold)), ApiDict(ApiStr(TXT_empty))}

ApiLabels ==
  {ApiMissing, ApiNone, ApiList(<<>>), ApiList(<<ApiDict(ApiStr(TXT_Service_label))>>),
   ApiList(<<ApiDict(ApiStr(TXT_Service_label)), ApiDict(ApiStr(TXT_labor_label))>>),
   ApiList(<<ApiDict(ApiMissing), ApiDict(ApiStr(TXT_labor_label)), ApiDict(ApiStr(TXT_empty))>>)}

ApiFlags == {ApiMissing, ApiNone, ApiBool(TRUE), ApiBool(FALSE), ApiStr(TXT_false), ApiInt(0)}

ApiPrices == {ApiMissing, ApiNone, ApiInt(0), ApiInt(150), ApiInt(-20)}

BaseItem ==
  Item(ApiDict(ApiStr(TXT_Sold)), ApiList(<<>>), ApiBool(TRUE), ApiBool(FALSE),
       ApiInt(100), ApiStr(TXT_sold_day), ApiInt(150), ApiStr(TXT_sold_instant))

\* the items that differ from BaseItem in one key
ApiItems ==
  {[BaseItem EXCEPT !.location = x] : x \in ApiLocations}
    \cup {[BaseItem EXCEPT !.labels = x] : x \in ApiLabels}
    \cup {[BaseItem EXCEPT !.archived = x] : x \in ApiFlags}
    \cup {[BaseItem EXCEPT !.insured = x] : x \in ApiFlags}
    \cup {[BaseItem EXCEPT !.purchasePrice = x] : x \in ApiPrices}
    \cup {[BaseItem EXCEPT !.soldPrice = x] : x \in ApiPrices}
    \cup {[BaseItem EXCEPT !.purchaseTime = x] : x \in ApiDates}
    \cup {[BaseItem EXCEPT !.soldTime = x] : x \in ApiDates}

ApiContext ==
  << Item(ApiDict(ApiStr(TXT_Garage)),
          ApiList(<<ApiDict(ApiStr(TXT_Service_label)), ApiDict(ApiStr(TXT_labor_label))>>),
          ApiBool(FALSE), ApiBool(TRUE), ApiInt(50), ApiStr(TXT_sold_instant),
          ApiInt(0), ApiStr(TXT_sentinel_time)),
     BaseItem,
     Item(ApiMissing, ApiMissing, ApiMissing, ApiMissing, ApiMissing, ApiMissing,
          ApiMissing, ApiMissing) >>

InitMap ==
  /\ rows = <<>>
  /\ start_date = [day |-> 1, tod |-> 0]
  /\ end_date = [day |-> 1, tod |-> 1]
  /\ now = FirstNow
  /\ report = NoReport
  /\ locals = NoLocals
  /\ input \in {[t |-> "items", items |-> l] : l \in Inputs(ApiItems, ApiContext)}
              \cup {[t |-> "items", items |-> <<>>]}
  /\ output = NoCall
  /\ cache = {}
  /\ CACHE_TTL = <<>>
  /\ safe_rows = <<>>
  /\ target_month = 0
  /\ target_year = 0
  /\ legacy_report = NoReport
  /\ NoFetch

\* a call map_api_items_to_rows(input.items, base_url)
MapApiItems ==
  /\ output = NoCall
  /\ output' = [t |-> "rows", rows |-> map_api_items_to_rows(input.items)]
  /\ UNCHANGED input
  /\ UNCHANGED <<engine_vars, cache_vars, legacy_vars, fetch_vars>>

NextMap == MapApiItems

SpecMap == InitMap /\ [][NextMap]_vars

-----------------------------------------------------------------------------
(* src/src/api.py: fetch_api_data(url, token) *)

(***************************************************************************)
(* The server is [items, per_page, total, wraps]: the details of the items *)
(* it holds (the id of an item is its position), the length of its pages   *)
(* (at most the pageSize asked for), the total it reports and whether it   *)
(* serves its pages again after the last one instead of an empty page.     *)
(* The total is [t, v]: "int", "missing" (no key: data.get gives 0) or     *)
(* "inf" (the JSON literal Infinity, which resp.json() reads as a float    *)
(* that no length reaches).  requests is the sequence of the requests      *)
(* issued, each [kind, arg, outcome].                                      *)
(***************************************************************************)

MaxItems == 3
MaxPerPage == 2
PAGE_SIZE == 100

\* the ids recorded at most: more than any finite total plus a page, so that
\* only a list loop that no total and no empty page ends is cut short
MaxIds == MaxItems + 1 + MaxPerPage

Lesser(a, b) == IF a <= b THEN a ELSE b

\* the ids of page p as the server serves it
page_items(srv, p) ==
  LET n == Len(srv.items)
      pages == (n + srv.per_page - 1) \div srv.per_page
      q == IF srv.wraps /\ pages > 0 THEN ((p - 1) % pages) + 1 ELSE p
      first == (q - 1) * srv.per_page + 1
      last == Lesser(q * srv.per_page, n)
  IN  [k \in 1..(IF last >= first THEN last - first + 1 ELSE 0) |-> first + k - 1]

\* line 76: len(item_ids) >= data.get("total", 0)
total_reached(n, total) ==
  CASE total.t = "int" -> n >= total.v
    [] total.t = "missing" -> n >= 0
    [] total.t = "inf" -> FALSE

\* the outcomes of a request that make the list phase fail, lines 61-67 and 74
ListFailures == {"network_error", "http_error_status", "malformed_page"}

\* the outcomes of a detail request that skip the item, lines 101-107
DetailFailures == {"network_error", "status_404", "malformed_body"}

Request(kind, arg, outcome) == [kind |-> kind, arg |-> arg, outcome |-> outcome]

\* with the item appended whatever the outcome
after_detail_always(full, item, outcome) == Append(full, item)

\* lines 102-107: full_items after the answer to a detail request
after_detail(full, item, outcome) ==
  IF outcome = "ok" THEN Append(full, item) ELSE full

ServerItems(n) == [k \in 1..n |-> ApiContext[((k - 1) % Len(ApiContext)) + 1]]

\* the totals a server reports: any count up to one more than it can hold,
\* none, or Infinity
Totals ==
  {[t |-> "int", v |-> n] : n \in 0..(MaxItems + 1)}
    \cup {[t |-> "missing", v |-> 0], [t |-> "inf", v |-> 0]}

Servers ==
  {[items |-> ServerItems(n), per_page |-> pp, total |-> tot, wraps |-> w] :
     n \in 0..MaxItems, pp \in 1..Lesser(MaxPerPage, PAGE_SIZE), w \in BOOLEAN,
     tot \in Totals}

InitFetch ==
  /\ rows = <<>>
  /\ start_date = [day |-> 1, tod |-> 0]
  /\ end_date = [day |-> 1, tod |-> 1]
  /\ now = FirstNow
  /\ report = NoReport
  /\ locals = NoLocals
  /\ input = NoCall
  /\ output = NoCall
  /\ cache = {}
  /\ CACHE_TTL = <<>>
  /\ safe_rows = <<>>
  /\ target_month = 0
  /\ target_year = 0
  /\ legacy_report = NoReport
  /\ server \in Servers
  /\ pc = "list"
  /\ page = 1
  /\ item_ids = <<>>
  /\ position = 1
  /\ full_items = <<>>
  /\ requests = <<>>
  /\ fetched = <<>>

\* lines 61-78: a page is asked for and answered
RequestPage ==
  /\ pc = "list"
  /\ Len(item_ids) < MaxIds
  /\ requests' = Append(requests, Request("list", page, "ok"))
  /\ LET current_items == page_items(server, page)
     IN  IF current_items = <<>>
         THEN /\ pc' = "details"
              /\ UNCHANGED <<page, item_ids>>
         ELSE /\ item_ids' = item_ids \o current_items
              /\ IF total_reached(Len(item_ids \o current_items), server.total)
                 THEN pc' = "details" /\ page' = page
                 ELSE pc' = "list" /\ page' = page + 1
  /\ UNCHANGED <<server, position, full_items, fetched>>
  /\ UNCHANGED <<engine_vars, helper_vars, cache_vars, legacy_vars>>

\* lines 79-81: a request of the list phase fails
RequestPageFails ==
  /\ pc = "list"
  /\ \E outcome \in ListFailures :
       requests' = Append(requests, Request("list", page, outcome))
  /\ fetched' = <<>>
  /\ pc' = "returned"
  /\ UNCHANGED <<server, page, item_ids, position, full_items>>
  /\ UNCHANGED <<engine_vars, helper_vars, cache_vars, legacy_vars>>

\* lines 93-103: the details of the next id are asked for and answered 200
RequestDetail ==
  /\ pc = "details"
  /\ position <= Len(item_ids)
  /\ requests' = Append(requests, Request("detail", item_ids[position], "ok"))
  /\ full_items' = after_detail(full_items, server.items[item_ids[position]], "ok")
  /\ position' = position + 1
  /\ UNCHANGED <<server, pc, page, item_ids, fetched>>
  /\ UNCHANGED <<engine_vars, helper_vars, cache_vars, legacy_vars>>

\* lines 102-107: the request fails or is not answered 200
RequestDetailFails ==
  /\ pc = "details"
  /\ position <= Len(item_ids)
  /\ \E outcome \in DetailFailures :
       /\ requests' = Append(requests, Request("detail", item_ids[position], outcome))
       /\ full_items' = after_detail(full_items, server.items[item_ids[position]], outcome)
  /\ position' = position + 1
  /\ UNCHANGED <<server, pc, page, item_ids, fetched>>
  /\ UNCHANGED <<engine_vars, helper_vars, cache_vars, legacy_vars>>

\* lines 113-117
ReturnRows ==
  /\ pc = "details"
  /\ position > Len(item_ids)
  /\ fetched' = map_api_items_to_rows(full_items)
  /\ pc' = "returned"
  /\ UNCHANGED <<server, page, item_ids, position, full_items, requests>>
  /\ UNCHANGED <<engine_vars, helper_vars, cache_vars, legacy_vars>>

NextFetch ==
  \/ RequestPage
  \/ RequestPageFails
  \/ RequestDetail
  \/ RequestDetailFails
  \/ ReturnRows

SpecFetch == InitFetch /\ [][NextFetch]_vars

\* every request is answered
NextAnswered ==
  \/ RequestPage
  \/ RequestDetail
  \/ ReturnRows

\* the call runs on: each request returns, within its timeout, and is followed
\* by the next statement
SpecAnswered ==
  /\ InitFetch
  /\ [][NextAnswered]_vars
  /\ WF_vars(RequestPage)
  /\ WF_vars(RequestDetail)
  /\ WF_vars(ReturnRows)

-----------------------------------------------------------------------------
(* Properties of the report *)

Returned == report.status = "ok"

\* the rows a list refers to
Members(lst) == Range(lst)

\* the lower-cased text of a field, empty when the field is absent
TextOf(val) == IF val.t = "str" THEN lower(val.v) ELSE <<>>

\* the day a date string denotes, if it denotes one
Denotes(date_str) == date_str.form \in {"date", "timestamp"}

RECURSIVE SumPurchase(_)
SumPurchase(S) ==
  IF S = {} THEN 0
  ELSE LET i == CHOOSE x \in S : TRUE
       IN  parse_float(rows[i].purchase_price) + SumPurchase(S \ {i})

RECURSIVE SumSold(_)
SumSold(S) ==
  IF S = {} THEN 0
  ELSE LET i == CHOOSE x \in S : TRUE
       IN  parse_float(rows[i].sold_price) + SumSold(S \ {i})

\* the rows the report treats as sold in the period
InPeriod ==
  Members(report.month_sales) \cup Members(report.other_income_items)
    \cup Members(locals.loss_items)

\* C1: in every returned report total_revenue = product_revenue +
\* service_revenue, total_profit = net_profit + service_revenue and
\* net_profit = product_revenue - cogs.
C1_RevenueProfitIdentities ==
  Returned =>
    /\ report.total_revenue = report.product_revenue + report.service_revenue
    /\ report.total_profit = report.net_profit + report.service_revenue
    /\ report.net_profit = report.product_revenue - report.cogs

C1_Witness ==
  /\ Returned
  /\ report.product_revenue > 0
  /\ report.service_revenue > 0
  /\ report.cogs > 0
  /\ report.total_profit # report.total_revenue

\* C2: no row is in both month_sales and other_income_items of a report.
C2_ProductServiceDisjoint ==
  Returned =>
    Members(report.month_sales) \cap Members(report.other_income_items) = {}

C2_Witness ==
  /\ Returned
  /\ report.month_sales # <<>>
  /\ report.other_income_items # <<>>

\* C3 (as claimed): no row is both in month_sales and in active inventory.
C3_SoldNotActive ==
  Returned =>
    Members(report.month_sales) \cap Members(locals.active_inventory) = {}

\* C4 (as claimed): every row counted as a product sale, a service sale or a
\* loss has archived = "true".
C4_SoldIsArchived ==
  Returned => \A i \in InPeriod : rows[i].archived = "true"

\* C5: with start_date <= end_date, a row whose sold_time is the day of
\* start_date or of end_date is a sale in the period whatever the time of
\* day of the bounds, and a row whose sold_time is the day before start_date
\* or the day after end_date is not.
C5_RangeInclusiveByDay ==
  (Returned /\ start_date.day <= end_date.day) =>
    \A i \in DOMAIN rows :
      Denotes(rows[i].sold_time) =>
        /\ rows[i].sold_time.day \in {start_date.day, end_date.day} => i \in InPeriod
        /\ rows[i].sold_time.day \in {start_date.day - 1, end_date.day + 1} => i \notin InPeriod

C5_Witness ==
  /\ Returned
  /\ start_date.tod = 1
  /\ end_date.tod = 0
  /\ \E i \in InPeriod : rows[i].sold_time.day = start_date.day
  /\ \E i \in InPeriod : rows[i].sold_time.day = end_date.day
  /\ \E i \in DOMAIN rows :
       /\ i \notin InPeriod
       /\ Denotes(rows[i].sold_time)
       /\ rows[i].sold_time.day \in {start_date.day - 1, end_date.day + 1}

\* the three service keywords, each looked for in both fields
HasServiceWord(r) ==
  \E k \in {KW_service, KW_labor, KW_other_income} :
    contains(TextOf(r.labels), k) \/ contains(TextOf(r.location), k)

\* C6 (as claimed): a row sold in range is in other_income_items iff its
\* labels or its location contain "service", "labor" or "other income".
C6_ServiceIffAnyKeyword ==
  Returned =>
    \A i \in DOMAIN rows :
      ( /\ Denotes(rows[i].sold_time)
        /\ start_date.day <= rows[i].sold_time.day
        /\ rows[i].sold_time.day <= end_date.day )
      => ((i \in Members(report.other_income_items)) <=> HasServiceWord(rows[i]))

\* the rows whose location contains "loss" and whose sold_time is in range
LossRowsInRange ==
  { i \in DOMAIN rows :
      /\ contains(TextOf(rows[i].location), KW_loss)
      /\ Denotes(rows[i].sold_time)
      /\ start_date.day <= rows[i].sold_time.day
      /\ rows[i].sold_time.day <= end_date.day }

\* C7: the loss items are exactly the rows whose location contains "loss"
\* and whose sold_time is in range, loss_count is their number and
\* loss_value the sum of their purchase_price, whatever their purchase_time.
C7_LossBySoldTime ==
  Returned =>
    /\ Members(locals.loss_items) = LossRowsInRange
    /\ report.loss_count = Cardinality(LossRowsInRange)
    /\ report.loss_value = SumPurchase(LossRowsInRange)

C7_Witness ==
  /\ Returned
  /\ report.loss_count = 2
  /\ report.loss_value = 100
  /\ \E i \in Members(locals.loss_items) : ~purchase_in_range(rows[i], start_date, end_date)
  /\ \E i \in DOMAIN rows :
       /\ i \notin Members(locals.loss_items)
       /\ contains(TextOf(rows[i].location), KW_loss)
       /\ purchase_in_range(rows[i], start_date, end_date)

\* C8 (as claimed): a loss item is neither in month_sales nor in
\* other_income_items.
C8_LossExclusive ==
  Returned =>
    Members(locals.loss_items)
      \cap (Members(report.month_sales) \cup Members(report.other_income_items)) = {}

\* C8 (amended): a loss item is never in month_sales.
C8_LossNotProduct ==
  Returned => Members(locals.loss_items) \cap Members(report.month_sales) = {}

C8_Witness ==
  /\ Returned
  /\ \E i \in Members(locals.loss_items) : i \in Members(report.other_income_items)
  /\ \E i \in Members(locals.loss_items) : i \notin Members(report.other_income_items)

\* C9: product_revenue is the sum of sold_price over month_sales, cogs the
\* sum of purchase_price over the month_sales rows with purchase_price > 0,
\* and service_revenue the sum of sold_price over other_income_items.
C9_RevenueAndCogsSums ==
  Returned =>
    /\ report.product_revenue = SumSold(Members(report.month_sales))
    /\ report.cogs =
         SumPurchase({i \in Members(report.month_sales) :
                        parse_float(rows[i].purchase_price) > 0})
    /\ report.service_revenue = SumSold(Members(report.other_income_items))

C9_Witness ==
  /\ Returned
  /\ \E i, j \in Members(report.month_sales) :
       /\ parse_float(rows[i].purchase_price) > 0
       /\ parse_float(rows[j].purchase_price) = 0
  /\ \E i \in Members(report.other_income_items) :
       /\ parse_float(rows[i].purchase_price) > 0
       /\ parse_float(rows[i].sold_price) > 0

\* rows without its i-th element
RemoveAt(rs, i) == SubSeq(rs, 1, i - 1) \o SubSeq(rs, i + 1, Len(rs))

\* the mean of (sold_price - purchase_price) / purchase_price * 100 over the
\* rows of lst with purchase_price > 0
MeanRoi(lst) ==
  LET cost == SelectSeq(lst, LAMBDA i : parse_float(rows[i].purchase_price) > 0)
      each == [k \in DOMAIN cost |->
                 Frac((parse_float(rows[cost[k]].sold_price)
                         - parse_float(rows[cost[k]].purchase_price)) * 100,
                      parse_float(rows[cost[k]].purchase_price))]
  IN  IF cost = <<>> THEN Frac(0, 1) ELSE FracDivInt(FracSum(each), Len(cost))

\* C10: avg_roi is the mean ROI of the product sales with purchase_price > 0;
\* a product sale with purchase_price = 0 is in free_items, is not in
\* items_with_cost, and the report of the rows without it has the same avg_roi.
C10_AvgRoiIgnoresFreeItems ==
  Returned =>
    /\ report.avg_roi = MeanRoi(report.month_sales)
    /\ \A i \in Members(report.month_sales) :
         parse_float(rows[i].purchase_price) = 0 =>
           /\ i \in Members(report.free_items)
           /\ i \notin Members(report.items_with_cost)
           /\ analyze_homebox_rows(RemoveAt(rows, i), start_date, end_date, now).ret.avg_roi
                = report.avg_roi

C10_Witness ==
  /\ Returned
  /\ Len(locals.roi_values) = 2
  /\ report.avg_roi \notin {Frac(0, 1), locals.roi_values[1]}
  /\ \E i \in Members(report.month_sales) : parse_float(rows[i].purchase_price) = 0

\* the product sales with a positive purchase_price
CostSales == {i \in Members(report.month_sales) : parse_float(rows[i].purchase_price) > 0}

\* the product sales whose purchase_time and sold_time both denote a day
DatedSales ==
  {i \in Members(report.month_sales) :
     Denotes(rows[i].purchase_time) /\ Denotes(rows[i].sold_time)}

Zero == Frac(0, 1)

\* C11: no call fails on a division; in a returned report avg_roi,
\* avg_sale_price, avg_profit_per_item, avg_days_to_sell, fastest_sale and
\* slowest_sale are 0 when the set they are taken over is empty; and the
\* report of the empty item list has every count and sum 0 and an empty
\* stale_inventory.
C11_ZeroWhenEmpty ==
  /\ report.status # "raised_zero_division"
  /\ (report.status # "none" /\ ~raises(rows, start_date, end_date)) => Returned
  /\ Returned =>
       /\ CostSales = {} => report.avg_roi = Zero
       /\ report.month_sales = <<>> =>
            report.avg_sale_price = Zero /\ report.avg_profit_per_item = Zero
       /\ DatedSales = {} =>
            /\ report.avg_days_to_sell = Zero
            /\ report.fastest_sale = 0
            /\ report.slowest_sale = 0
  /\ (report.status # "none" /\ rows = <<>>) =>
       /\ Returned
       /\ \A f \in {"product_revenue", "service_revenue", "total_revenue", "cogs",
                     "net_profit", "service_profit", "total_profit", "items_sold",
                     "free_items_count", "business_expenses", "total_expenses",
                     "business_assets_value", "business_assets_count", "loss_value",
                     "loss_count", "junkagie_count", "junkagie_potential",
                     "total_active_value", "total_active_count", "stale_count",
                     "marketplace_value", "marketplace_count", "quick_flips",
                     "fastest_sale", "slowest_sale"} : report[f] = 0
       /\ \A f \in {"avg_roi", "avg_sale_price", "avg_profit_per_item",
                     "avg_days_to_sell"} : report[f] = Zero
       /\ \A f \in {"stale_inventory", "month_sales", "items_with_cost", "free_items",
                     "other_income_items", "business_assets"} : report[f] = <<>>
       /\ DOMAIN report.inventory_by_location = {}

C11_Witness ==
  /\ Returned
  /\ report.month_sales # <<>>
  /\ CostSales = {}
  /\ report.avg_roi = Zero
  /\ report.avg_sale_price # Zero

\* the count fields that hold in every report: each is the length of its list
CountsOfLists ==
  /\ report.items_sold = Len(report.month_sales)
  /\ report.free_items_count = Len(report.free_items)
  /\ report.stale_count = Len(report.stale_inventory)
  /\ report.business_assets_count = Len(report.business_assets)
  /\ report.total_active_count = Len(locals.active_inventory)
  /\ report.loss_count = Len(locals.loss_items)
  /\ report.junkagie_count = Len(locals.junkagie_items)
  /\ report.marketplace_count = Len(locals.marketplace_items)

\* C12 (as claimed): every count field of a returned report is the length of
\* its list, the active-inventory count fields (total_active_count and
\* active_inventory_count) being the number of active-inventory rows.  The
\* report has no items-with-cost count to compare: its key 'items_with_cost'
\* holds the list.
C12_CountsEqualLengths ==
  Returned =>
    /\ CountsOfLists
    /\ report.active_inventory_count = Len(locals.active_inventory)

\* the range-scoped lists are empty and the range-scoped sums are 0
RangeScopedEmpty ==
  /\ report.month_sales = <<>>
  /\ report.other_income_items = <<>>
  /\ locals.loss_items = <<>>
  /\ report.product_revenue = 0
  /\ report.service_revenue = 0
  /\ report.cogs = 0
  /\ report.business_expenses = 0
  /\ report.total_expenses = 0
  /\ report.loss_value = 0

\* the fields of a report that no date of the range enters
RangeIndependent(ret) ==
  [ business_assets |-> ret.business_assets,
    business_assets_value |-> ret.business_assets_value,
    business_assets_count |-> ret.business_assets_count,
    junkagie_count |-> ret.junkagie_count,
    junkagie_potential |-> ret.junkagie_potential,
    total_active_value |-> ret.total_active_value,
    total_active_count |-> ret.total_active_count,
    marketplace_value |-> ret.marketplace_value,
    marketplace_count |-> ret.marketplace_count,
    inventory_by_location |-> ret.inventory_by_location ]

\* start_date > end_date as datetimes
StartAfterEnd ==
  \/ start_date.day > end_date.day
  \/ start_date.day = end_date.day /\ start_date.tod > end_date.tod

\* the range-independent fields are those of the call with the bounds exchanged
AsWithBoundsExchanged ==
  RangeIndependent(report)
    = RangeIndependent(analyze_homebox_rows(rows, end_date, start_date, now).ret)

\* C13 (as claimed): when start_date > end_date the call returns a report
\* whose month_sales, other_income_items and loss items are empty and whose
\* product_revenue, service_revenue, cogs, business_expenses, total_expenses
\* and loss_value are 0, the range-independent fields being as usual.
C13_EmptyWhenStartAfterEnd ==
  (report.status # "none" /\ StartAfterEnd /\ ~raises(rows, start_date, end_date)) =>
    /\ Returned
    /\ RangeScopedEmpty
    /\ AsWithBoundsExchanged

\* C13 (amended): the same when the day of start_date is after the day of
\* end_date.
C13_EmptyWhenStartDayAfterEndDay ==
  (report.status # "none" /\ start_date.day > end_date.day
     /\ ~raises(rows, start_date, end_date)) =>
    /\ Returned
    /\ RangeScopedEmpty
    /\ AsWithBoundsExchanged

C13_Witness ==
  /\ Returned
  /\ start_date.day > end_date.day
  /\ \E i \in DOMAIN rows : sold_in_range(rows[i], end_date, start_date)
  /\ \E i \in DOMAIN rows : purchase_in_range(rows[i], end_date, start_date)
  /\ report.marketplace_count > 0
  /\ report.total_active_count > 0

\* the rows whose purchase_time is in range
PurchasedInRange ==
  { i \in DOMAIN rows :
      /\ Denotes(rows[i].purchase_time)
      /\ start_date.day <= rows[i].purchase_time.day
      /\ rows[i].purchase_time.day <= end_date.day }

\* those of them whose location contains none of the three bucket words
BusinessPurchased ==
  { i \in PurchasedInRange :
      \A k \in {KW_nfs, KW_other_income, KW_junkagie} :
        ~contains(TextOf(rows[i].location), k) }

\* C14: total_expenses is the sum of purchase_price over the rows whose
\* purchase_time is in range, business_expenses the same sum over those of
\* them whose location contains none of "nfs", "other income", "junkagie";
\* the rows of business_expenses are among those of total_expenses, and
\* business_expenses <= total_expenses when no purchase_price is negative.
C14_ExpensesSums ==
  Returned =>
    /\ report.total_expenses = SumPurchase(PurchasedInRange)
    /\ report.business_expenses = SumPurchase(BusinessPurchased)
    /\ Members(locals.period_expenses) = PurchasedInRange
    /\ Members(locals.business_items) = BusinessPurchased
    /\ Members(locals.business_items) \subseteq Members(locals.period_expenses)
    /\ (\A i \in DOMAIN rows : parse_float(rows[i].purchase_price) >= 0)
         => report.business_expenses <= report.total_expenses

C14_Witness ==
  /\ Returned
  /\ \A i \in DOMAIN rows : parse_float(rows[i].purchase_price) >= 0
  /\ 0 < report.business_expenses
  /\ report.business_expenses < report.total_expenses
  /\ \E i \in PurchasedInRange : contains(TextOf(rows[i].location), KW_junkagie)
  /\ \E i \in DOMAIN rows : Denotes(rows[i].purchase_time) /\ i \notin PurchasedInRange

\* the rows whose location contains the word k
Located(k) == {i \in DOMAIN rows : contains(TextOf(rows[i].location), k)}

\* the widest range
ReferenceStart == [day |-> 1, tod |-> 0]
ReferenceEnd == [day |-> MaxDay, tod |-> 1]

\* C15: the business_assets list, value and count, junkagie_count,
\* junkagie_potential, total_active_value and count, marketplace_value and
\* count and inventory_by_location of a report are those of the call on the
\* same rows, at the same time, with the widest range (so the calls with any
\* two ranges agree on them); business_assets holds the rows whose location
\* contains "business assets" whatever their dates, junkagie_count is the
\* number of rows whose location contains "junkagie", and junkagie_potential
\* is junkagie_count * 5.
C15_RangeIndependence ==
  Returned =>
    /\ RangeIndependent(report)
         = RangeIndependent(analyze_homebox_rows(rows, ReferenceStart, ReferenceEnd, now).ret)
    /\ Members(report.business_assets) = Located(KW_business_assets)
    /\ report.business_assets_count = Cardinality(Located(KW_business_assets))
    /\ report.business_assets_value = SumPurchase(Located(KW_business_assets))
    /\ report.junkagie_count = Cardinality(Located(KW_junkagie))
    /\ report.junkagie_potential = report.junkagie_count * 5

C15_Witness ==
  /\ Returned
  /\ <<start_date, end_date>> # <<ReferenceStart, ReferenceEnd>>
  /\ \E i \in Members(report.business_assets) :
       Denotes(rows[i].purchase_time) /\ i \notin PurchasedInRange
  /\ report.junkagie_count > 0
  /\ report.marketplace_count > 0
  /\ report.total_active_count > 0

\* the rows that are not archived and whose location contains none of the
\* four bucket words
ActiveRows ==
  { i \in DOMAIN rows :
      /\ rows[i].archived # "true"
      /\ \A k \in {KW_nfs, KW_other_income, KW_junkagie, KW_business_assets} :
           ~contains(TextOf(rows[i].location), k) }

\* C16: a row is in the active inventory iff its archived field is not
\* "true" and its location contains none of "nfs", "other income",
\* "junkagie", "business assets" in any case; total_active_count is the
\* number of these rows and total_active_value the sum of their
\* purchase_price.
C16_ActiveInventory ==
  Returned =>
    /\ Members(locals.active_inventory) = ActiveRows
    /\ report.total_active_count = Cardinality(ActiveRows)
    /\ report.total_active_value = SumPurchase(ActiveRows)

C16_Witness ==
  /\ Returned
  /\ \E i \in Members(locals.active_inventory) : rows[i].archived = NoFlag
  /\ \E i \in DOMAIN rows :
       /\ rows[i].archived = "true"
       /\ i \notin Located(KW_nfs) \cup Located(KW_other_income)
                   \cup Located(KW_junkagie) \cup Located(KW_business_assets)
  /\ \E i \in DOMAIN rows : rows[i].archived = "false" /\ i \notin ActiveRows
  /\ report.total_active_value = 25

\* the whole days from the purchase_time of row i to the clock of the call
Age(i) == locals.now.day - rows[i].purchase_time.day

\* the active rows whose purchase_time denotes a day more than 90 days
\* before the clock of the call
StaleActiveRows ==
  {i \in ActiveRows : Denotes(rows[i].purchase_time) /\ Age(i) > 90}

\* C17: stale_inventory holds, once each, exactly the active-inventory rows
\* whose purchase_time parses and whose age in whole days at the call is
\* more than 90 (a row held exactly 90 days is not in it); every entry
\* carries days_held equal to its age (334 for a purchase 334 days before
\* the call); and the days_held of the entries never increase along the list.
C17_StaleInventory ==
  Returned =>
    /\ Members(report.stale_inventory) = StaleActiveRows
    /\ Len(report.stale_inventory) = Cardinality(StaleActiveRows)
    /\ report.stale_count = Cardinality(StaleActiveRows)
    /\ \A i \in ActiveRows :
         (Denotes(rows[i].purchase_time) /\ Age(i) = 90) =>
           i \notin Members(report.stale_inventory)
    /\ \A i \in Members(report.stale_inventory) : rows[i].days_held = <<Age(i)>>
    /\ \A k \in 1..(Len(report.stale_inventory) - 1) :
         rows[report.stale_inventory[k]].days_held[1]
           >= rows[report.stale_inventory[k + 1]].days_held[1]

C17_Witness ==
  /\ Returned
  /\ Len(report.stale_inventory) = 2
  /\ report.stale_inventory[1] > report.stale_inventory[2]
  /\ rows[report.stale_inventory[1]].days_held = <<334>>
  /\ rows[report.stale_inventory[2]].days_held = <<91>>
  /\ \E i \in ActiveRows : Denotes(rows[i].purchase_time) /\ Age(i) = 90

\* the whole days from the purchase_time of row i to its sold_time
DaysToSell(i) == rows[i].sold_time.day - rows[i].purchase_time.day

RECURSIVE SumDaysToSell(_)
SumDaysToSell(S) ==
  IF S = {} THEN 0
  ELSE LET i == CHOOSE x \in S : TRUE
       IN  DaysToSell(i) + SumDaysToSell(S \ {i})

\* C18: the velocity figures are taken over exactly the product sales whose
\* purchase_time and sold_time both parse, days_to_sell being the whole days
\* from the one to the other: avg_days_to_sell is their mean, quick_flips the
\* number of them with days_to_sell <= 14, fastest_sale their minimum and
\* slowest_sale their maximum; fastest_sale <= avg_days_to_sell <=
\* slowest_sale and quick_flips <= items_sold in every report.
C18_SalesVelocity ==
  Returned =>
    /\ Len(locals.days_to_sell) = Cardinality(DatedSales)
    /\ report.quick_flips = Cardinality({i \in DatedSales : DaysToSell(i) <= 14})
    /\ DatedSales # {} =>
         /\ report.avg_days_to_sell
              = Frac(SumDaysToSell(DatedSales), Cardinality(DatedSales))
         /\ report.fastest_sale = Min({DaysToSell(i) : i \in DatedSales})
         /\ report.slowest_sale = Max({DaysToSell(i) : i \in DatedSales})
    /\ FracLeq(Frac(report.fastest_sale, 1), report.avg_days_to_sell)
    /\ FracLeq(report.avg_days_to_sell, Frac(report.slowest_sale, 1))
    /\ report.quick_flips <= report.items_sold

C18_Witness ==
  /\ Returned
  /\ Cardinality(DatedSales) = 3
  /\ report.quick_flips = 2
  /\ \E i \in DatedSales : DaysToSell(i) = 14
  /\ report.fastest_sale = 1
  /\ report.slowest_sale = 20

\* the rows that are not archived
OpenRows == {i \in DOMAIN rows : rows[i].archived # "true"}

\* the group of a row: its location, "Unknown" when it has none
GroupOf(r) == IF r.location.t \in {"missing", "none"} THEN Str(TXT_Unknown) ELSE r.location

RECURSIVE SumCounts(_)
SumCounts(K) ==
  IF K = {} THEN 0
  ELSE LET k == CHOOSE x \in K : TRUE
       IN  report.inventory_by_location[k].count + SumCounts(K \ {k})

\* C19 (as claimed): inventory_by_location has one group for each location
\* of the rows that are not archived, whatever their bucket, the rows
\* without a location being in the group "Unknown"; the count and the value
\* of a group are the number and the purchase_price sum of its rows, and the
\* counts add up to the number of rows that are not archived.
C19_InventoryByLocation ==
  Returned =>
    /\ DOMAIN report.inventory_by_location = {GroupOf(rows[i]) : i \in OpenRows}
    /\ \A k \in DOMAIN report.inventory_by_location :
         LET grp == {i \in OpenRows : GroupOf(rows[i]) = k}
         IN  /\ report.inventory_by_location[k].count = Cardinality(grp)
             /\ report.inventory_by_location[k].value = SumPurchase(grp)
    /\ SumCounts(DOMAIN report.inventory_by_location) = Cardinality(OpenRows)

\* C20 (as claimed): no step changes the caller's rows: after a call every
\* record has the keys and the values it had before, no days_held added.
C20_RowsNotMutated == [][rows' = rows]_vars

\* the rows a report refers to from one of its lists
ReportRows ==
  Members(report.month_sales) \cup Members(report.items_with_cost)
    \cup Members(report.free_items) \cup Members(report.other_income_items)
    \cup Members(report.business_assets) \cup Members(report.stale_inventory)

\* C21 (as claimed): no later step changes a value reachable from a report
\* already returned: each row one of its lists refers to, the days_held of
\* its stale_inventory entries included, stays what it was.
C21_ReportImmutable ==
  [][Returned => \A i \in ReportRows : rows'[i] = rows[i]]_vars

\* C22: a second call on the rows as the first call left them, with the same
\* range and the same clock, returns the report the first call returned,
\* lists in the same order, sums and days_held included, and leaves the rows
\* as they are.
C22_Idempotent ==
  Returned =>
    analyze_homebox_rows(rows, start_date, end_date, locals.now)
      = [ret |-> report, locals |-> locals, rows |-> rows]

C22_Witness ==
  /\ Returned
  /\ locals.now = now
  /\ Len(report.stale_inventory) >= 2
  /\ report.stale_inventory[1] > report.stale_inventory[2]
  /\ \A i \in Members(report.stale_inventory) : rows[i].days_held # <<>>
  /\ \E i \in DOMAIN rows : rows[i].days_held = <<>>

\* a text that writes a number in decimal digits, spaces around it aside
WritesNumber(s) ==
  LET b == strip(s)
      body == IF b # <<>> /\ b[1] \in {PLUS, MINUS} THEN Tail(b) ELSE b
  IN  is_decimal(body)

\* a price that is missing or is not a number
MissingOrNotNumber(value) ==
  \/ value.t \in {"missing", "none"}
  \/ value.t = "str" /\ ~WritesNumber(value.s)
  \/ value.t = "float" /\ value.f.kind = "nan"

\* C23 (as claimed, for the prices): parse_float gives exactly 0 for a price
\* that is missing or not numeric, so that it adds 0 to every sum.
C23_NotNumberIsZero ==
  (output # NoCall /\ MissingOrNotNumber(input)) => output.f = Finite(0, 1)

\* the rows with the empty text in place of an absent location or labels
WithEmptyText(rs) ==
  [i \in DOMAIN rs |->
     [rs[i] EXCEPT
        !.location = IF @.t \in {"missing", "none"} THEN Str(TXT_empty) ELSE @,
        !.labels = IF @.t \in {"missing", "none"} THEN Str(TXT_empty) ELSE @]]

\* the lists the keyword predicates decide
KeywordLists(out) ==
  << out.ret.month_sales, out.ret.other_income_items, out.ret.business_assets,
     out.locals.loss_items, out.locals.junkagie_items, out.locals.business_items,
     out.locals.active_inventory >>

\* C24 (as claimed): whatever is absent of location and labels, key missing or
\* value None, the call returns a report, and the keyword predicates decide
\* as on the same rows with the empty text in place of the absent fields.
C24_TotalOverAbsentText ==
  report.status # "none" =>
    /\ Returned
    /\ KeywordLists([ret |-> report, locals |-> locals])
         = KeywordLists(analyze_homebox_rows(WithEmptyText(rows), start_date,
                                             end_date, locals.now))

\* C25 (as claimed): whatever run_detailed_analysis returns, from its cache or
\* not, is what the computation on the same rows and range returns at the
\* clock of the call, the stale rows and their days_held included.
C25_CacheSound ==
  [][RunDetailedAnalysis =>
       /\ report' = detailed_analysis(rows, start_date, end_date, now).ret
       /\ safe_rows' = detailed_analysis(rows, start_date, end_date, now).rows]_vars

\* C26 (as claimed): the month/year analyzer and the range engine called on
\* the first to the last day of the month return the same month_sales,
\* product_revenue, cogs, service_revenue and other_income_items.
C26_MonthIsRange ==
  (Returned /\ legacy_report.status = "ok") =>
    /\ legacy_report.month_sales = report.month_sales
    /\ legacy_report.product_revenue = report.product_revenue
    /\ legacy_report.cogs = report.cogs
    /\ legacy_report.service_revenue = report.service_revenue
    /\ legacy_report.other_income_items = report.other_income_items

\* the date the API gives is absent: missing, null, empty or the sentinel
NoApiDate(value) ==
  \/ value.t \in {"missing", "none"}
  \/ value.v = <<>>
  \/ (Len(value.v) >= 4 /\ SubSeq(value.v, 1, 4) = TXT_0001)

\* out is s cut before its first letter T
CutBeforeT(out, s) ==
  /\ Len(out) <= Len(s)
  /\ out = SubSeq(s, 1, Len(out))
  /\ LETTER_T \notin Range(out)
  /\ (Len(out) < Len(s) => s[Len(out) + 1] = LETTER_T)

DateMapped(out, value) ==
  IF NoApiDate(value) THEN out = <<>> ELSE CutBeforeT(out, value.v)

\* the names of the labels of an item that has a list of labels
NamesOf(labels) ==
  [k \in DOMAIN labels.v |->
     IF labels.v[k].v[1].t = "missing" THEN <<>> ELSE labels.v[k].v[1].v]

\* where the k-th name starts in the joined text
RECURSIVE Offset(_, _)
Offset(names, k) == IF k = 1 THEN 0 ELSE Offset(names, k - 1) + Len(names[k - 1]) + 1

\* text is the names in their order with a comma between two of them
CommaJoined(text, names) ==
  /\ (names = <<>> => text = <<>>)
  /\ (names # <<>> => Len(text) = Offset(names, Len(names)) + Len(names[Len(names)]))
  /\ \A k \in DOMAIN names :
       /\ SubSeq(text, Offset(names, k) + 1, Offset(names, k) + Len(names[k])) = names[k]
       /\ (k < Len(names) => text[Offset(names, k) + Len(names[k]) + 1] = COMMA)

\* C27: map_api_items_to_rows gives one row per item, in order; archived and
\* insured are the strings "true" or "false"; a date is the empty string when
\* the API value is missing, empty or starts with 0001, and the API value cut
\* before its T otherwise; location is the name of the nested location and
\* labels the names of the labels joined by commas.
C27_MappedShape ==
  output # NoCall =>
    /\ Len(output.rows) = Len(input.items)
    /\ \A i \in DOMAIN input.items :
         LET item == input.items[i]
             row == output.rows[i]
         IN  /\ row.archived \in {"true", "false"}
             /\ row.insured \in {"true", "false"}
             /\ (item.archived.t = "bool" => (row.archived = "true" <=> item.archived.v[1]))
             /\ (item.insured.t = "bool" => (row.insured = "true" <=> item.insured.v[1]))
             /\ (item.archived.t \in {"missing", "none"} => row.archived = "false")
             /\ DateMapped(row.purchase_time, item.purchaseTime)
             /\ DateMapped(row.sold_time, item.soldTime)
             /\ (item.location.t = "dict" /\ item.location.v[1].t = "str"
                   => row.location = item.location.v[1].v)
             /\ (item.location = ApiDict(ApiMissing) \/ item.location = ApiMissing
                   => row.location = <<>>)
             /\ (item.labels.t = "list" => CommaJoined(row.labels, NamesOf(item.labels)))
             /\ (item.labels.t # "list" => row.labels = <<>>)

\* three items mapped: an instant cut to its day, a sentinel and a missing date
\* made empty, two names joined, an absent flag made "false"
C27_Witness ==
  /\ output # NoCall
  /\ Len(output.rows) = 3
  /\ \E i \in DOMAIN input.items :
       /\ input.items[i].soldTime = ApiStr(TXT_sold_instant)
       /\ output.rows[i].sold_time = TXT_sold_day
  /\ \E i \in DOMAIN input.items :
       /\ input.items[i].soldTime = ApiStr(TXT_sentinel_time)
       /\ output.rows[i].sold_time = <<>>
       /\ Len(input.items[i].labels.v) = 2
       /\ COMMA \in Range(output.rows[i].labels)
  /\ \E i \in DOMAIN input.items :
       /\ input.items[i].soldTime.t = "str"
       /\ Len(input.items[i].soldTime.v) = MaxText
       /\ input.items[i].soldTime.v[2] = LETTER_T
       /\ Len(output.rows[i].sold_time) = 1

\* C28 (as claimed): every product sale is in exactly one of items_with_cost
\* and free_items, so items_sold is the sum of their lengths, and net_profit
\* is the sum over month_sales of sold_price - purchase_price.
C28_PartitionByCost ==
  Returned =>
    /\ \A i \in Members(report.month_sales) :
         (i \in Members(report.items_with_cost)) # (i \in Members(report.free_items))
    /\ report.items_sold = Len(report.items_with_cost) + Len(report.free_items)
    /\ report.net_profit
         = SumSold(Members(report.month_sales)) - SumPurchase(Members(report.month_sales))

\* the requests of one kind, in the order they were issued
RequestsOf(kind) == SelectSeq(requests, LAMBDA q : q.kind = kind)

ListFailed == \E k \in DOMAIN requests :
                requests[k].kind = "list" /\ requests[k].outcome # "ok"

\* C29: when a request of the list phase has failed, fetch_api_data returns the
\* empty list and has asked for no details; otherwise it has asked for the
\* details of each collected id, in order, and returns the mappings, in that
\* order, of the items whose request was answered 200.
C29_FailsPerPhase ==
  pc = "returned" =>
    IF ListFailed
    THEN fetched = <<>> /\ RequestsOf("detail") = <<>>
    ELSE LET asked == RequestsOf("detail")
             answered == SelectSeq(asked, LAMBDA q : q.outcome = "ok")
         IN  /\ Len(asked) = Len(item_ids)
             /\ \A k \in DOMAIN asked : asked[k].arg = item_ids[k]
             /\ fetched = map_api_items_to_rows(
                            [k \in DOMAIN answered |-> server.items[answered[k].arg]])

\* three ids collected over two pages, the details of the second not obtained
C29_Witness ==
  /\ pc = "returned"
  /\ ~ListFailed
  /\ Len(RequestsOf("list")) = 2
  /\ Len(item_ids) = 3
  /\ RequestsOf("detail")[2].outcome = "status_404"
  /\ Len(fetched) = 2
  /\ fetched[2] = map_api_item(server.items[3])

====
